---- MODULE Spec2Model ----
(***************************************************************************)
(* Connection lifecycle of WiimoteDriver (src/src/wiimote/driver.py).      *)
(*                                                                         *)
(* Three kinds of threads share the driver object:                         *)
(*   - the consumer ("main"), which calls the public operations            *)
(*     find_and_connect, start_read_loop, stop_read_loop, read_state and   *)
(*     disconnect, one after the other, in any order;                      *)
(*   - background poll threads running _read_loop;                         *)
(*   - background reconnect threads running _reconnect_loop.               *)
(*                                                                         *)
(* Every thread has a program counter pc[t] and a stack of return labels.  *)
(* One action is one statement (or a short run of statements that touch    *)
(* the shared fields once); threads interleave between actions.  Python    *)
(* thread joins carry a timeout (join(timeout=1.0)), so a join returns     *)
(* either because the target ended or because the timeout expired.         *)
(***************************************************************************)
EXTENDS Integers, Sequences, FiniteSets, TLC

\* ------------------------------------------------------------------ bounds
NPoll == 2          \* poll threads that can be alive at once
NReconn == 1        \* reconnect threads that can be alive at once
MaxHandles == 3     \* HID handle objects that can exist at once
MaxLosses == 1      \* times the radio link drops
MaxFrames == 5      \* distinct frames the device delivers before repeating
QueueCap == 2       \* capacity of the frame queue (queue.Queue(maxsize=...))

\* ------------------------------------------------------------------ state
VARIABLES
    pc,              \* thread -> label
    stack,           \* thread -> sequence of return labels
    joinTarget,      \* thread -> thread it is joining (NoThread when none)
    device,          \* self.device: 0 is None, else a handle id
    open,            \* handles on which open_path succeeded and close() was not called
    good,            \* open handles whose I/O still works
    connected,       \* self.driver_state.connected
    reconnecting,    \* self.driver_state.reconnecting
    observed,        \* what _notify_driver_state last showed the observer
    readThread,      \* self._read_thread
    readStop,        \* self._read_stop
    lastReadError,   \* self._last_read_error is not None
    readLoopWanted,  \* self._read_loop_wanted
    reconnThread,    \* self._reconnect_thread
    reconnStop,      \* self._reconnect_stop
    eventQueue,      \* self._event_queue
    pframe,          \* poll thread -> payload it is enqueuing
    delay,           \* reconnect thread -> delay (ms) of _reconnect_loop
    latest,          \* read_state: local "latest"/"data" (0 is None)
    snapshot,        \* self.state: id of the frame it was last decoded from
    cfg,             \* the [Reconnect] section of the configuration
    script,          \* the public operations the consumer calls, in order
    devPresent,      \* the controller is paired, in range and answering
    losses,          \* link drops so far
    frameSeq,        \* frames delivered so far
    op,              \* the consumer's current (or last) public operation
    escaped,         \* the operation whose exception escaped to the consumer
    rsResult,        \* what the last read_state returned
    rsDecoded,       \* frames decoded by the current/last read_state call
    stopped,         \* disconnect() returned and no operation was called since
    resumeDue,       \* a loss was detected by a running poll thread and polling
                     \* was neither resumed nor stopped by the consumer since
    lastEnq,         \* the frame most recently put on the queue
    enqAtDrain,      \* lastEnq at the moment read_state stopped draining
    snapAtCall,      \* snapshot at the moment read_state was called
    staleAtCall,     \* the healthy handle the driver was connected on, with a
                     \* read error already stored, when read_state was called
                     \* (0 when it was not so)
    calls,           \* public operations called so far
    call,            \* the decoding function applied to data
    data,            \* the bytes handed to the decoding function
    offset,          \* its offset argument
    extension,       \* its extension argument / self.extension_type
    mode,            \* self.driver_state.mode
    done,            \* the function has returned
    ret,             \* << value returned >> (<< >> before the call)
    wstate,          \* self.state, the WiimoteState snapshot
    prior,           \* self.state before the frame was decoded
    cal,             \* calibrate(): its position, settings and locals
    offsets,         \* self._gyro_offset and self._accel_offset
    args,            \* the arguments and settings of a call that takes no bytes
    mouse,           \* the MouseController and the clock it reads
    link,            \* a WiimoteConnection and the HID device behind it
    drv              \* a WiimoteDriver used from one thread, its clock and transport

devVars == << device, open, good >>
connVars == << connected, reconnecting, observed >>
readVars == << readThread, readStop, lastReadError, readLoopWanted >>
reconnVars == << reconnThread, reconnStop >>
queueVars == << eventQueue, pframe, lastEnq >>
rsVars == << latest, snapshot, rsResult, rsDecoded, enqAtDrain, snapAtCall,
            staleAtCall >>
envVars == << cfg, script, devPresent, losses, frameSeq >>
ghostVars == << op, stopped, resumeDue, calls >>
codecVars == << call, data, offset, extension, mode, done, ret, wstate, prior,
               cal, offsets, args, mouse, link, drv >>

vars == << pc, stack, joinTarget, device, open, good, connected, reconnecting,
           observed, readThread, readStop, lastReadError, readLoopWanted,
           reconnThread, reconnStop, eventQueue, pframe, delay, latest,
           snapshot, cfg, script, devPresent, losses, frameSeq, op, escaped, rsResult,
           rsDecoded, stopped, resumeDue, lastEnq, calls, enqAtDrain,
           snapAtCall, staleAtCall, call, data, offset, extension, mode, done, ret, wstate,
           prior, cal, offsets, args, mouse, link, drv >>

\* Optional[T]: None is the empty tuple, a value v is << v >>.
None == << >>
Some(v) == << v >>

\* The element of a one-element set.  Only({ e : x \in {v} }) is e with the
\* local variable x holding the value of v, computed once.
Only(S) == CHOOSE x \in S : TRUE

\* WiimoteState(): the snapshot of a new driver, with the driver's low-pass
\* filters beside it.  A filter is None until its first sample
\* (_has_value), then << n, d >> for _value = n / d; accel and gyro hold one
\* filter state per axis.  effective_mode and last_extension_hex are not
\* modelled.
WiimoteState ==
    [ buttons |-> 0,
      accel |-> << 0, 0, 0 >>,
      gyro |-> << 0, 0, 0 >>,
      gyro_raw |-> << None, None, None >>,
      ir_x |-> 0,
      ir_y |-> 0,
      ir_visible |-> FALSE,
      battery_level |-> -1,
      last_report_id |-> None,
      extension_connected |-> None,
      motionplus_connected |-> None,
      nunchuk_connected |-> None,
      nunchuk_stick |-> << None, None >>,
      nunchuk_c |-> FALSE,
      nunchuk_z |-> FALSE,
      accel_filters |-> << None, None, None >>,
      gyro_filters |-> << None, None, None >> ]

\* self._gyro_offset = [0.0, 0.0, 0.0] and self._accel_offset likewise.  An
\* offset is << n, d >> for the value n / d.
NoOffsets == [ gyro |-> << << 0, 1 >>, << 0, 1 >>, << 0, 1 >> >>,
               accel |-> << << 0, 1 >>, << 0, 1 >>, << 0, 1 >> >> ]

\* No WiimoteConnection was built.
NoLink == [ connected |-> FALSE ]
NoDrv == [ connected |-> FALSE ]

\* No MouseController was built.
NoMouse == [ enabled |-> FALSE ]

\* calibrate() is not running.
CalIdle == [ pc |-> "idle" ]

\* No frame is being decoded.
CodecIdle ==
    /\ call = "none"
    /\ data = << >>
    /\ offset = 0
    /\ extension = "none"
    /\ mode = "MotionPlus"
    /\ done = FALSE
    /\ ret = None
    /\ wstate = WiimoteState
    /\ prior = WiimoteState
    /\ cal = CalIdle
    /\ offsets = NoOffsets
    /\ args = None
    /\ mouse = NoMouse
    /\ link = NoLink
    /\ drv = NoDrv

\* ------------------------------------------------------------------ threads
Main == <<"main", 0>>
NoThread == <<"none", 0>>
PollIds == {<<"poll", i>> : i \in 1..NPoll}
ReconnIds == {<<"reconn", i>> : i \in 1..NReconn}
Threads == {Main} \cup PollIds \cup ReconnIds
Handles == 1..MaxHandles

\* threading.Thread.is_alive()
Alive(t) == t # NoThread /\ pc[t] # "idle"

\* An id for a new Thread object: one that is not running and that nobody is
\* still joining.
FreeIds(S) == {t \in S : pc[t] = "idle" /\ \A u \in Threads : joinTarget[u] # t}
NewId(S) == CHOOSE t \in FreeIds(S) : \A u \in FreeIds(S) : t[2] <= u[2]

\* hid.device(): a new handle object, not yet opened.
FreeHandles == {h \in Handles : h \notin open /\ h # device}
NewHandle == CHOOSE h \in FreeHandles : \A g \in FreeHandles : h <= g

Min(a, b) == IF a <= b THEN a ELSE b
Max(a, b) == IF a >= b THEN a ELSE b

\* ------------------------------------------------------------------ control
Goto(t, l) ==
    /\ pc' = [pc EXCEPT ![t] = l]
    /\ UNCHANGED << stack, escaped >>
Call(t, entry, back) ==
    /\ pc' = [pc EXCEPT ![t] = entry]
    /\ stack' = [stack EXCEPT ![t] = <<back>> \o @]
    /\ UNCHANGED escaped
Return(t) ==
    /\ pc' = [pc EXCEPT ![t] = Head(stack[t])]
    /\ stack' = [stack EXCEPT ![t] = Tail(@)]
    /\ UNCHANGED escaped

\* An exception nobody catches: on the consumer it escapes the public
\* operation; on a background thread it ends the thread.
Raise(t) ==
    /\ pc' = [pc EXCEPT ![t] = IF t = Main THEN "ready" ELSE "idle"]
    /\ stack' = [stack EXCEPT ![t] = <<>>]
    /\ escaped' = IF t = Main THEN op ELSE escaped

\* ------------------------------------------------------- the environment
\* The radio link drops: every handle opened so far stops working and the
\* controller is no longer enumerated.
DeviceLost ==
    /\ devPresent
    /\ losses < MaxLosses
    /\ devPresent' = FALSE
    /\ losses' = losses + 1
    /\ good' = {}
    /\ UNCHANGED << pc, stack, escaped, joinTarget, device, open, connVars,
                    readVars, reconnVars, queueVars, rsVars, delay, cfg,
                    script, frameSeq, ghostVars >>
    /\ UNCHANGED codecVars

\* The controller is paired again; handles opened before stay dead.
DeviceBack ==
    /\ ~devPresent
    /\ devPresent' = TRUE
    /\ UNCHANGED << pc, stack, escaped, joinTarget, devVars, connVars,
                    readVars, reconnVars, queueVars, rsVars, delay, cfg,
                    script, losses, frameSeq, ghostVars >>
    /\ UNCHANGED codecVars

\* The payload of the next frame the device delivers.
NextFrame == Min(frameSeq + 1, MaxFrames)

\* ------------------------------------------------------- find_and_connect
\* find_and_connect is called by the consumer (first call on a new driver)
\* and by _reconnect_loop; it returns to whoever called it.
FcReturn(t, ok) ==
    IF t = Main THEN Goto(t, "ready")
    ELSE Goto(t, IF ok THEN "rl_s_conn" ELSE "rl_backoff")

\* hid.enumerate, candidate choice, self.device = hid.device().  The handle
\* object self.device referred to before loses its last reference; whether
\* the hid binding closes an open handle when the object is collected
\* depends on its version, so both outcomes are allowed.
FcEnum(t) ==
    /\ pc[t] = "fc_enum"
    /\ IF ~devPresent
         THEN FcReturn(t, FALSE) /\ UNCHANGED devVars
         ELSE /\ FreeHandles # {}
              /\ device' = NewHandle
              /\ \E collected \in BOOLEAN :
                    /\ open' = IF collected THEN open \ {device} ELSE open
                    /\ good' = IF collected THEN good \ {device} ELSE good
              /\ Goto(t, "fc_open")
    /\ UNCHANGED << joinTarget, connVars, readVars, reconnVars,
                    queueVars, rsVars, delay, envVars, ghostVars >>
    /\ UNCHANGED codecVars

\* self.device.open_path(path): raises when self.device was set to None in
\* the meantime, when the handle is already open, or when the device left.
FcOpen(t) ==
    /\ pc[t] = "fc_open"
    /\ IF device = 0 \/ device \in open \/ ~devPresent
         THEN FcReturn(t, FALSE) /\ UNCHANGED << open, good >>
         ELSE /\ open' = open \cup {device}
              /\ good' = good \cup {device}
              /\ Goto(t, "fc_led")
    /\ UNCHANGED << joinTarget, device, connVars, readVars, reconnVars,
                    queueVars, rsVars, delay, envVars, ghostVars >>
    /\ UNCHANGED codecVars

\* _initialize: self.device.write(bytes([0x11, 0x10])) is not guarded; when
\* it raises, find_and_connect returns False and closes nothing.
FcLed(t) ==
    /\ pc[t] = "fc_led"
    /\ IF device = 0 \/ device \notin good
         THEN FcReturn(t, FALSE)
         ELSE Goto(t, "fc_init")
    /\ UNCHANGED << joinTarget, devVars, connVars, readVars, reconnVars,
                    queueVars, rsVars, delay, envVars, ghostVars >>
    /\ UNCHANGED codecVars

\* The rest of _initialize: extension detection, report mode, status request.
\* Every write and read in it is guarded, so nothing escapes.
FcInit(t) ==
    /\ pc[t] = "fc_init"
    /\ Goto(t, "fc_conn")
    /\ UNCHANGED << joinTarget, devVars, connVars, readVars, reconnVars,
                    queueVars, rsVars, delay, envVars, ghostVars >>
    /\ UNCHANGED codecVars

FcConn(t) ==
    /\ pc[t] = "fc_conn"
    /\ connected' = TRUE
    /\ Goto(t, "fc_rec")
    /\ UNCHANGED << joinTarget, devVars, reconnecting, observed, readVars,
                    reconnVars, queueVars, rsVars, delay, envVars, ghostVars >>
    /\ UNCHANGED codecVars

\* self.driver_state.reconnecting = False; self._notify_driver_state();
\* return True
FcRec(t) ==
    /\ pc[t] = "fc_rec"
    /\ reconnecting' = FALSE
    /\ observed' = << connected, FALSE >>
    /\ FcReturn(t, TRUE)
    /\ UNCHANGED << joinTarget, devVars, connected, readVars, reconnVars,
                    queueVars, rsVars, delay, envVars, ghostVars >>
    /\ UNCHANGED codecVars

\* ------------------------------------------------------- stop_read_loop
\* join(timeout=1.0), in milliseconds
JoinTimeout == 1000

\* Where a join can run into its timeout: the target is alive and is inside
\* something that can last longer than the timeout: time.sleep(delay) of
\* _reconnect_loop with a delay above it, or the rest of _initialize (memory
\* reads of up to 0.5 s each).  A poll thread's read lasts _read_timeout_ms
\* (20 ms by default) and every other statement is straight-line code; those
\* are taken to finish within the timeout.
OutlastsJoin(u) ==
    \/ pc[u] = "rl_sleep" /\ delay[u] > JoinTimeout
    \/ pc[u] = "fc_init"
JoinReturns(t) ==
    \/ ~Alive(joinTarget[t])
    \/ OutlastsJoin(joinTarget[t])

SrlSet(t) ==
    /\ pc[t] = "srl_set"
    /\ readStop' = TRUE
    /\ Goto(t, "srl_chk1")
    /\ UNCHANGED << joinTarget, devVars, connVars, readThread, lastReadError,
                    readLoopWanted, reconnVars, queueVars, rsVars, delay,
                    envVars, ghostVars >>
    /\ UNCHANGED codecVars

\* "if self._read_thread and ...": the first load of self._read_thread
SrlChk1(t) ==
    /\ pc[t] = "srl_chk1"
    /\ Goto(t, IF readThread = NoThread THEN "srl_clear" ELSE "srl_chk2")
    /\ UNCHANGED << joinTarget, devVars, connVars, readVars, reconnVars,
                    queueVars, rsVars, delay, envVars, ghostVars >>
    /\ UNCHANGED codecVars

\* "... self._read_thread.is_alive()", "current_thread() is not
\* self._read_thread", "self._read_thread.join(...)": the field is loaded
\* again; if another thread stored None meanwhile, the call is made on None.
SrlChk2(t) ==
    /\ pc[t] = "srl_chk2"
    /\ IF readThread = NoThread
         THEN Raise(t) /\ UNCHANGED joinTarget
         ELSE IF ~Alive(readThread) \/ readThread = t
           THEN Goto(t, "srl_clear") /\ UNCHANGED joinTarget
           ELSE /\ joinTarget' = [joinTarget EXCEPT ![t] = readThread]
                /\ Goto(t, "srl_wait")
    /\ UNCHANGED << devVars, connVars, readVars, reconnVars, queueVars,
                    rsVars, delay, envVars, ghostVars >>
    /\ UNCHANGED codecVars

\* self._read_thread.join(timeout=join_timeout)
SrlWait(t) ==
    /\ pc[t] = "srl_wait"
    /\ JoinReturns(t)
    /\ joinTarget' = [joinTarget EXCEPT ![t] = NoThread]
    /\ Goto(t, "srl_clear")
    /\ UNCHANGED << devVars, connVars, readVars, reconnVars, queueVars,
                    rsVars, delay, envVars, ghostVars >>
    /\ UNCHANGED codecVars

\* self._read_thread = None; self._read_loop_wanted = False
SrlClear(t) ==
    /\ pc[t] = "srl_clear"
    /\ readThread' = NoThread
    /\ readLoopWanted' = FALSE
    /\ resumeDue' = IF t = Main /\ op \in {"stop_read_loop", "disconnect"}
                      THEN FALSE ELSE resumeDue
    /\ Return(t)
    /\ UNCHANGED << joinTarget, devVars, connVars, readStop, lastReadError,
                    reconnVars, queueVars, rsVars, delay, envVars, op, stopped,
                    calls >>
    /\ UNCHANGED codecVars

\* ------------------------------------------------------- _ensure_reconnect
\* delay = max(0.1, initial_delay), in milliseconds
InitialDelay == Max(100, cfg.initial_delay)

ErChk(t) ==
    /\ pc[t] = "er_chk"
    /\ IF ~cfg.enabled \/ connected
         THEN Return(t)
         ELSE Goto(t, "er_spawn")
    /\ UNCHANGED << joinTarget, devVars, connVars, readVars, reconnVars,
                    queueVars, rsVars, delay, envVars, ghostVars >>
    /\ UNCHANGED codecVars

\* The block under self._reconnect_lock: it is atomic with respect to the
\* other callers of _ensure_reconnect, the only users of the lock.
ErSpawn(t) ==
    /\ pc[t] = "er_spawn"
    /\ IF Alive(reconnThread)
         THEN Return(t) /\ UNCHANGED << reconnVars, delay >>
         ELSE /\ FreeIds(ReconnIds) # {}
              /\ reconnStop' = FALSE
              /\ reconnThread' = NewId(ReconnIds)
              /\ delay' = [delay EXCEPT ![NewId(ReconnIds)] = InitialDelay]
              /\ pc' = [pc EXCEPT ![t] = Head(stack[t]),
                                  ![NewId(ReconnIds)] = "rl_top"]
              /\ stack' = [stack EXCEPT ![t] = Tail(@)]
              /\ UNCHANGED escaped
    /\ UNCHANGED << joinTarget, devVars, connVars, readVars, queueVars,
                    rsVars, envVars, ghostVars >>
    /\ UNCHANGED codecVars

\* ------------------------------------------------------- _handle_disconnect
HdGuard(t) ==
    /\ pc[t] = "hd_guard"
    /\ IF ~connected /\ device = 0
         THEN Return(t)
         ELSE Call(t, "srl_set", "hd_close")
    /\ UNCHANGED << joinTarget, devVars, connVars, readVars, reconnVars,
                    queueVars, rsVars, delay, envVars, ghostVars >>
    /\ UNCHANGED codecVars

\* if self.device: try: self.device.close() ...; self.device = None
HdClose(t) ==
    /\ pc[t] = "hd_close"
    /\ open' = open \ {device}
    /\ good' = good \ {device}
    /\ device' = 0
    /\ Goto(t, "hd_conn")
    /\ UNCHANGED << joinTarget, connVars, readVars, reconnVars, queueVars,
                    rsVars, delay, envVars, ghostVars >>
    /\ UNCHANGED codecVars

HdConn(t) ==
    /\ pc[t] = "hd_conn"
    /\ connected' = FALSE
    /\ Goto(t, "hd_rec")
    /\ UNCHANGED << joinTarget, devVars, reconnecting, observed, readVars,
                    reconnVars, queueVars, rsVars, delay, envVars, ghostVars >>
    /\ UNCHANGED codecVars

\* self.driver_state.reconnecting = <Reconnect.enabled>;
\* self._notify_driver_state(); self._ensure_reconnect() is the last
\* statement, so it returns to the caller of _handle_disconnect.
HdRec(t) ==
    /\ pc[t] = "hd_rec"
    /\ reconnecting' = cfg.enabled
    /\ observed' = << connected, cfg.enabled >>
    /\ Goto(t, "er_chk")
    /\ UNCHANGED << joinTarget, devVars, connected, readVars, reconnVars,
                    queueVars, rsVars, delay, envVars, ghostVars >>
    /\ UNCHANGED codecVars

\* ------------------------------------------------------- disconnect
RslSet ==
    /\ pc[Main] = "rsl_set"
    /\ reconnStop' = TRUE
    /\ Goto(Main, "rsl_chk")
    /\ UNCHANGED << joinTarget, devVars, connVars, readVars, reconnThread,
                    queueVars, rsVars, delay, envVars, ghostVars >>
    /\ UNCHANGED codecVars

RslChk ==
    /\ pc[Main] = "rsl_chk"
    /\ IF Alive(reconnThread)
         THEN /\ joinTarget' = [joinTarget EXCEPT ![Main] = reconnThread]
              /\ Goto(Main, "rsl_wait")
         ELSE Goto(Main, "rsl_clear") /\ UNCHANGED joinTarget
    /\ UNCHANGED << devVars, connVars, readVars, reconnVars, queueVars,
                    rsVars, delay, envVars, ghostVars >>
    /\ UNCHANGED codecVars

\* self._reconnect_thread.join(timeout=1.0)
RslWait ==
    /\ pc[Main] = "rsl_wait"
    /\ JoinReturns(Main)
    /\ joinTarget' = [joinTarget EXCEPT ![Main] = NoThread]
    /\ Goto(Main, "rsl_clear")
    /\ UNCHANGED << devVars, connVars, readVars, reconnVars, queueVars,
                    rsVars, delay, envVars, ghostVars >>
    /\ UNCHANGED codecVars

RslClear ==
    /\ pc[Main] = "rsl_clear"
    /\ reconnThread' = NoThread
    /\ Return(Main)
    /\ UNCHANGED << joinTarget, devVars, connVars, readVars, reconnStop,
                    queueVars, rsVars, delay, envVars, ghostVars >>
    /\ UNCHANGED codecVars

\* if self.device: try: write LEDs off; sleep; close() except: pass;
\* self.device = None
DcClose ==
    /\ pc[Main] = "dc_close"
    /\ open' = open \ {device}
    /\ good' = good \ {device}
    /\ device' = 0
    /\ Goto(Main, "dc_conn")
    /\ UNCHANGED << joinTarget, connVars, readVars, reconnVars, queueVars,
                    rsVars, delay, envVars, ghostVars >>
    /\ UNCHANGED codecVars

DcConn ==
    /\ pc[Main] = "dc_conn"
    /\ connected' = FALSE
    /\ Goto(Main, "dc_rec")
    /\ UNCHANGED << joinTarget, devVars, reconnecting, observed, readVars,
                    reconnVars, queueVars, rsVars, delay, envVars, ghostVars >>
    /\ UNCHANGED codecVars

\* self.driver_state.reconnecting = False; self._notify_driver_state();
\* disconnect() returns
DcRec ==
    /\ pc[Main] = "dc_rec"
    /\ reconnecting' = FALSE
    /\ observed' = << connected, FALSE >>
    /\ stopped' = TRUE
    /\ Goto(Main, "ready")
    /\ UNCHANGED << joinTarget, devVars, connected, readVars, reconnVars,
                    queueVars, rsVars, delay, envVars, op, resumeDue, calls >>
    /\ UNCHANGED codecVars

\* ------------------------------------------------------- start_read_loop
\* start_read_loop is called by the consumer and by _reconnect_loop, which
\* returns right after it.
SlReturn(t) == Goto(t, IF t = Main THEN "ready" ELSE "idle")

SlDev(t) ==
    /\ pc[t] = "sl_dev"
    /\ IF device = 0 THEN SlReturn(t) ELSE Goto(t, "sl_chk1")
    /\ UNCHANGED << joinTarget, devVars, connVars, readVars, reconnVars,
                    queueVars, rsVars, delay, envVars, ghostVars >>
    /\ UNCHANGED codecVars

SlChk1(t) ==
    /\ pc[t] = "sl_chk1"
    /\ Goto(t, IF readThread = NoThread THEN "sl_start" ELSE "sl_chk2")
    /\ UNCHANGED << joinTarget, devVars, connVars, readVars, reconnVars,
                    queueVars, rsVars, delay, envVars, ghostVars >>
    /\ UNCHANGED codecVars

SlChk2(t) ==
    /\ pc[t] = "sl_chk2"
    /\ IF readThread = NoThread
         THEN Raise(t)
         ELSE IF Alive(readThread) THEN SlReturn(t) ELSE Goto(t, "sl_start")
    /\ UNCHANGED << joinTarget, devVars, connVars, readVars, reconnVars,
                    queueVars, rsVars, delay, envVars, ghostVars >>
    /\ UNCHANGED codecVars

\* self._read_stop.clear(); self._last_read_error = None;
\* self._read_loop_wanted = True; self._read_thread = Thread(...); start()
SlStart(t) ==
    /\ pc[t] = "sl_start"
    /\ FreeIds(PollIds) # {}
    /\ readStop' = FALSE
    /\ lastReadError' = FALSE
    /\ readLoopWanted' = TRUE
    /\ readThread' = NewId(PollIds)
    /\ resumeDue' = FALSE
    /\ pc' = [pc EXCEPT ![t] = IF t = Main THEN "ready" ELSE "idle",
                        ![NewId(PollIds)] = "pl_top"]
    /\ UNCHANGED << stack, escaped, joinTarget, devVars, connVars, reconnVars,
                    queueVars, rsVars, delay, envVars, op, stopped, calls >>
    /\ UNCHANGED codecVars

\* ------------------------------------------------------- _read_loop
\* while not self._read_stop.is_set(): if not self.device: break
PlTop(t) ==
    /\ pc[t] = "pl_top"
    /\ Goto(t, IF readStop \/ device = 0 THEN "pl_fin" ELSE "pl_read")
    /\ UNCHANGED << joinTarget, devVars, connVars, readVars, reconnVars,
                    queueVars, rsVars, delay, envVars, ghostVars >>
    /\ UNCHANGED codecVars

\* self._event_queue.put_nowait(payload), queue.Full caught
PutNowait(t, f) ==
    IF Len(eventQueue) < QueueCap
      THEN /\ eventQueue' = Append(eventQueue, f)
           /\ lastEnq' = f
           /\ pframe' = [pframe EXCEPT ![t] = 0]
           /\ Goto(t, "pl_top")
      ELSE /\ pframe' = [pframe EXCEPT ![t] = f]
           /\ Goto(t, "pl_full")
           /\ UNCHANGED << eventQueue, lastEnq >>

\* data = self.device.read(32, self._read_timeout_ms): an error that is not
\* a timeout is stored in _last_read_error and ends the loop; no data within
\* the timeout goes round the loop; data is put on the queue.
PlRead(t) ==
    /\ pc[t] = "pl_read"
    /\ \/ /\ device = 0 \/ device \notin good
          /\ lastReadError' = TRUE
          /\ resumeDue' = (resumeDue \/ (connected /\ device # 0))
          /\ Goto(t, "pl_fin")
          /\ UNCHANGED << queueVars, frameSeq >>
       \/ /\ device # 0 /\ device \in good
          /\ Goto(t, "pl_top")
          /\ UNCHANGED << lastReadError, resumeDue, queueVars, frameSeq >>
       \/ /\ device # 0 /\ device \in good
          /\ PutNowait(t, NextFrame)
          /\ frameSeq' = NextFrame
          /\ UNCHANGED << lastReadError, resumeDue >>
    /\ UNCHANGED << joinTarget, devVars, connVars, readThread, readStop,
                    readLoopWanted, reconnVars, rsVars, delay, cfg, script,
                    devPresent, losses, op, stopped, calls >>
    /\ UNCHANGED codecVars

\* The other overflow policy a bounded queue can have: the queue keeps what it
\* holds and the frame that did not fit is discarded.
PlFullDropNewest(t) ==
    /\ pc[t] = "pl_full"
    /\ pframe' = [pframe EXCEPT ![t] = 0]
    /\ Goto(t, "pl_top")
    /\ UNCHANGED << joinTarget, devVars, connVars, readVars, reconnVars,
                    eventQueue, lastEnq, rsVars, delay, envVars, ghostVars >>
    /\ UNCHANGED codecVars

\* except queue.Full: _ = self._event_queue.get_nowait(); queue.Empty is
\* caught and passed, and the payload is not put.
PlFull(t) ==
    /\ pc[t] = "pl_full"
    /\ IF eventQueue = <<>>
         THEN /\ pframe' = [pframe EXCEPT ![t] = 0]
              /\ Goto(t, "pl_top")
              /\ UNCHANGED eventQueue
         ELSE /\ eventQueue' = Tail(eventQueue)
              /\ Goto(t, "pl_reput")
              /\ UNCHANGED pframe
    /\ UNCHANGED << joinTarget, devVars, connVars, readVars, reconnVars,
                    lastEnq, rsVars, delay, envVars, ghostVars >>
    /\ UNCHANGED codecVars

\* self._event_queue.put_nowait(payload) after the drop: a queue.Full here is
\* not caught by "except queue.Empty" and reaches the outer handler.
PlReput(t) ==
    /\ pc[t] = "pl_reput"
    /\ IF Len(eventQueue) < QueueCap
         THEN /\ eventQueue' = Append(eventQueue, pframe[t])
              /\ lastEnq' = pframe[t]
              /\ Goto(t, "pl_top")
              /\ UNCHANGED lastReadError
         ELSE /\ lastReadError' = TRUE
              /\ Goto(t, "pl_fin")
              /\ UNCHANGED << eventQueue, lastEnq >>
    /\ pframe' = [pframe EXCEPT ![t] = 0]
    /\ UNCHANGED << joinTarget, devVars, connVars, readThread, readStop,
                    readLoopWanted, reconnVars, rsVars, delay, envVars,
                    ghostVars >>
    /\ UNCHANGED codecVars

\* finally: if self._last_read_error: self._handle_disconnect(...)
PlFin(t) ==
    /\ pc[t] = "pl_fin"
    /\ IF lastReadError
         THEN Call(t, "hd_guard", "idle")
         ELSE Goto(t, "idle")
    /\ UNCHANGED << joinTarget, devVars, connVars, readVars, reconnVars,
                    queueVars, rsVars, delay, envVars, ghostVars >>
    /\ UNCHANGED codecVars

\* ------------------------------------------------------- _reconnect_loop
\* time.time() % 1, in milliseconds
ClockPhases == {0, 250, 500, 750}

\* delay = min(max_delay, delay * backoff)
\* if jitter > 0: delay = max(0.1, delay + jitter * (0.5 - time.time() % 1))
\* (milliseconds; cfg.backoff is the factor in tenths)
NextDelay(d, ph) ==
    LET capped == Min(cfg.max_delay, (d * cfg.backoff) \div 10)
    IN IF cfg.jitter > 0
         THEN Max(100, capped + (cfg.jitter * (500 - ph)) \div 1000)
         ELSE capped

RlExit(t) ==
    /\ pc' = [pc EXCEPT ![t] = "idle"]
    /\ delay' = [delay EXCEPT ![t] = 0]
    /\ UNCHANGED << stack, escaped >>

\* while not self._reconnect_stop.is_set(): if connected: ...
RlTop(t) ==
    /\ pc[t] = "rl_top"
    /\ IF reconnStop THEN RlExit(t)
       ELSE /\ Goto(t, IF connected THEN "rl_c_rec" ELSE "rl_rec")
            /\ UNCHANGED delay
    /\ UNCHANGED << joinTarget, devVars, connVars, readVars, reconnVars,
                    queueVars, rsVars, envVars, ghostVars >>
    /\ UNCHANGED codecVars

\* connected already: reconnecting = False; notify; return
RlCRec(t) ==
    /\ pc[t] = "rl_c_rec"
    /\ reconnecting' = FALSE
    /\ observed' = << connected, FALSE >>
    /\ RlExit(t)
    /\ UNCHANGED << joinTarget, devVars, connected, readVars, reconnVars,
                    queueVars, rsVars, envVars, ghostVars >>
    /\ UNCHANGED codecVars

\* self.driver_state.reconnecting = True; self._notify_driver_state()
RlRec(t) ==
    /\ pc[t] = "rl_rec"
    /\ reconnecting' = TRUE
    /\ observed' = << connected, TRUE >>
    /\ Goto(t, "rl_sleep")
    /\ UNCHANGED << joinTarget, devVars, connected, readVars, reconnVars,
                    queueVars, rsVars, delay, envVars, ghostVars >>
    /\ UNCHANGED codecVars

\* time.sleep(delay); if self._reconnect_stop.is_set(): return;
\* then self.find_and_connect()
RlSleep(t) ==
    /\ pc[t] = "rl_sleep"
    /\ IF reconnStop THEN RlExit(t)
       ELSE Goto(t, "fc_enum") /\ UNCHANGED delay
    /\ UNCHANGED << joinTarget, devVars, connVars, readVars, reconnVars,
                    queueVars, rsVars, envVars, ghostVars >>
    /\ UNCHANGED codecVars

\* after find_and_connect() returned True
RlSConn(t) ==
    /\ pc[t] = "rl_s_conn"
    /\ connected' = TRUE
    /\ Goto(t, "rl_s_rec")
    /\ UNCHANGED << joinTarget, devVars, reconnecting, observed, readVars,
                    reconnVars, queueVars, rsVars, delay, envVars, ghostVars >>
    /\ UNCHANGED codecVars

RlSRec(t) ==
    /\ pc[t] = "rl_s_rec"
    /\ reconnecting' = FALSE
    /\ observed' = << connected, FALSE >>
    /\ Goto(t, "rl_s_wanted")
    /\ UNCHANGED << joinTarget, devVars, connected, readVars, reconnVars,
                    queueVars, rsVars, delay, envVars, ghostVars >>
    /\ UNCHANGED codecVars

\* if self._read_loop_wanted: self.start_read_loop(...); return
RlSWanted(t) ==
    /\ pc[t] = "rl_s_wanted"
    /\ IF readLoopWanted
         THEN /\ Goto(t, "sl_dev")
              /\ delay' = [delay EXCEPT ![t] = 0]
         ELSE RlExit(t)
    /\ UNCHANGED << joinTarget, devVars, connVars, readVars, reconnVars,
                    queueVars, rsVars, envVars, ghostVars >>
    /\ UNCHANGED codecVars

\* after find_and_connect() returned False
RlBackoff(t) ==
    /\ pc[t] = "rl_backoff"
    /\ \E ph \in ClockPhases :
          delay' = [delay EXCEPT ![t] = NextDelay(delay[t], ph)]
    /\ Goto(t, "rl_top")
    /\ UNCHANGED << joinTarget, devVars, connVars, readVars, reconnVars,
                    queueVars, rsVars, envVars, ghostVars >>
    /\ UNCHANGED codecVars

\* ------------------------------------------------------- read_state
\* if not self.device: self._ensure_reconnect(); return False
RsDev ==
    /\ pc[Main] = "rs_dev"
    /\ IF device = 0
         THEN Call(Main, "er_chk", "ready")
         ELSE Goto(Main, "rs_err")
    /\ UNCHANGED << joinTarget, devVars, connVars, readVars, reconnVars,
                    queueVars, rsVars, delay, envVars, ghostVars >>
    /\ UNCHANGED codecVars

\* if self._last_read_error: self._handle_disconnect(...)
RsErr ==
    /\ pc[Main] = "rs_err"
    /\ IF lastReadError
         THEN Call(Main, "hd_guard", "rs_clearerr")
         ELSE Goto(Main, "rs_thr1")
    /\ UNCHANGED << joinTarget, devVars, connVars, readVars, reconnVars,
                    queueVars, rsVars, delay, envVars, ghostVars >>
    /\ UNCHANGED codecVars

\* self._last_read_error = None; return False
RsClearErr ==
    /\ pc[Main] = "rs_clearerr"
    /\ lastReadError' = FALSE
    /\ Goto(Main, "ready")
    /\ UNCHANGED << joinTarget, devVars, connVars, readThread, readStop,
                    readLoopWanted, reconnVars, queueVars, rsVars, delay,
                    envVars, ghostVars >>
    /\ UNCHANGED codecVars

\* "if self._read_thread and self._read_thread.is_alive()", inside the try
RsThr1 ==
    /\ pc[Main] = "rs_thr1"
    /\ Goto(Main, IF readThread = NoThread THEN "rs_direct" ELSE "rs_thr2")
    /\ UNCHANGED << joinTarget, devVars, connVars, readVars, reconnVars,
                    queueVars, rsVars, delay, envVars, ghostVars >>
    /\ UNCHANGED codecVars

\* The second load; None.is_alive() raises AttributeError, which the
\* "except Exception" of read_state hands to _handle_disconnect.
RsThr2 ==
    /\ pc[Main] = "rs_thr2"
    /\ IF readThread = NoThread
         THEN Call(Main, "hd_guard", "ready")
         ELSE Goto(Main, IF Alive(readThread) THEN "rs_get" ELSE "rs_direct")
    /\ UNCHANGED << joinTarget, devVars, connVars, readVars, reconnVars,
                    queueVars, rsVars, delay, envVars, ghostVars >>
    /\ UNCHANGED codecVars

\* data = self.get_event(timeout=0.02)
RsGet ==
    /\ pc[Main] = "rs_get"
    /\ IF eventQueue = <<>>
         THEN /\ Goto(Main, "ready")
              /\ UNCHANGED << eventQueue, latest >>
         ELSE /\ latest' = Head(eventQueue)
              /\ eventQueue' = Tail(eventQueue)
              /\ Goto(Main, "rs_drain")
    /\ UNCHANGED << joinTarget, devVars, connVars, readVars, reconnVars,
                    pframe, lastEnq, snapshot, rsResult, rsDecoded,
                    enqAtDrain, snapAtCall, staleAtCall, delay, envVars, ghostVars >>
    /\ UNCHANGED codecVars

\* while True: next_item = self.get_event(timeout=0.0) ...
RsDrain ==
    /\ pc[Main] = "rs_drain"
    /\ IF eventQueue = <<>>
         THEN /\ Goto(Main, "rs_decode")
              /\ enqAtDrain' = lastEnq
              /\ UNCHANGED << eventQueue, latest >>
         ELSE /\ latest' = Head(eventQueue)
              /\ eventQueue' = Tail(eventQueue)
              /\ Goto(Main, "rs_drain")
              /\ UNCHANGED enqAtDrain
    /\ UNCHANGED << joinTarget, devVars, connVars, readVars, reconnVars,
                    pframe, lastEnq, snapshot, rsResult, rsDecoded,
                    snapAtCall, staleAtCall, delay, envVars, ghostVars >>
    /\ UNCHANGED codecVars

\* else: data = self.device.read(32, 50)
RsDirect ==
    /\ pc[Main] = "rs_direct"
    /\ \/ /\ device = 0 \/ device \notin good
          /\ Call(Main, "hd_guard", "ready")
          /\ UNCHANGED << latest, frameSeq, enqAtDrain >>
       \/ /\ device # 0 /\ device \in good
          /\ Goto(Main, "ready")
          /\ UNCHANGED << latest, frameSeq, enqAtDrain >>
       \/ /\ device # 0 /\ device \in good
          /\ latest' = NextFrame
          /\ frameSeq' = NextFrame
          /\ enqAtDrain' = NextFrame
          /\ Goto(Main, "rs_decode")
    /\ UNCHANGED << joinTarget, devVars, connVars, readVars, reconnVars,
                    queueVars, snapshot, rsResult, rsDecoded, snapAtCall, staleAtCall,
                    delay, cfg, script, devPresent, losses, ghostVars >>
    /\ UNCHANGED codecVars

\* The frame is decoded into self.state; return True
RsDecode ==
    /\ pc[Main] = "rs_decode"
    /\ snapshot' = latest
    /\ rsDecoded' = rsDecoded + 1
    /\ rsResult' = TRUE
    /\ latest' = 0
    /\ Goto(Main, "ready")
    /\ UNCHANGED << joinTarget, devVars, connVars, readVars, reconnVars,
                    queueVars, enqAtDrain, snapAtCall, staleAtCall, delay, envVars,
                    ghostVars >>
    /\ UNCHANGED codecVars

\* ------------------------------------------------------- the consumer
Ops == {"find_and_connect", "start_read_loop", "stop_read_loop", "read_state",
        "disconnect"}

Entry(o) ==
    CASE o = "find_and_connect" -> "fc_enum"
      [] o = "start_read_loop" -> "sl_dev"
      [] o = "stop_read_loop" -> "srl_set"
      [] o = "read_state" -> "rs_dev"
      [] o = "disconnect" -> "rsl_set"

\* disconnect() is _stop_reconnect_loop(), stop_read_loop() and the rest,
\* one after the other.
EntryStack(o) ==
    CASE o = "stop_read_loop" -> << "ready" >>
      [] o = "disconnect" -> << "srl_set", "dc_close" >>
      [] OTHER -> << >>

\* The consumer calls the next public operation of its script.
MainCall(o) ==
    /\ pc[Main] = "ready"
    /\ calls < Len(script)
    /\ o = script[calls + 1]
    /\ pc' = [pc EXCEPT ![Main] = Entry(o)]
    /\ stack' = [stack EXCEPT ![Main] = EntryStack(o)]
    /\ op' = o
    /\ calls' = calls + 1
    /\ escaped' = "none"
    /\ stopped' = FALSE
    /\ rsResult' = FALSE
    /\ rsDecoded' = 0
    /\ latest' = 0
    /\ enqAtDrain' = 0
    /\ snapAtCall' = snapshot
    /\ staleAtCall' = IF o = "read_state" /\ lastReadError /\ connected /\ device \in good
                       THEN device ELSE 0
    /\ UNCHANGED << joinTarget, devVars, connVars, readVars, reconnVars,
                    queueVars, snapshot, delay, envVars, resumeDue >>
    /\ UNCHANGED codecVars

\* ------------------------------------------------------- specification
\* The configuration of the default specification: reconnect on or off, a
\* constant retry interval of 1.5 s (backoff_factor 1.0, no jitter).
Configs == {[enabled |-> e, initial_delay |-> 1500, max_delay |-> 3000,
             backoff |-> 10, jitter |-> 0] : e \in BOOLEAN}

\* What the consumer does with the driver: the session of the GUI worker
\* thread (src/src/ui/gui.py, _run_wiimote), and a caller that polls before
\* connecting and restarts the read loop.
Scripts == {
    << "find_and_connect", "start_read_loop", "read_state", "read_state",
       "stop_read_loop", "disconnect" >>,
    << "read_state", "start_read_loop", "stop_read_loop", "start_read_loop" >> }

\* WiimoteDriver.__init__
InitThreads ==
    /\ pc = [t \in Threads |-> IF t = Main THEN "ready" ELSE "idle"]
    /\ stack = [t \in Threads |-> << >>]
    /\ joinTarget = [t \in Threads |-> NoThread]
    /\ connected = FALSE
    /\ reconnecting = FALSE
    /\ observed = << FALSE, FALSE >>
    /\ readThread = NoThread
    /\ readStop = FALSE
    /\ lastReadError = FALSE
    /\ readLoopWanted = FALSE
    /\ reconnThread = NoThread
    /\ reconnStop = FALSE
    /\ eventQueue = << >>
    /\ pframe = [t \in PollIds |-> 0]
    /\ delay = [t \in ReconnIds |-> 0]
    /\ latest = 0
    /\ snapshot = 0
    /\ losses = 0
    /\ op = "none"
    /\ escaped = "none"
    /\ rsResult = FALSE
    /\ rsDecoded = 0
    /\ stopped = FALSE
    /\ resumeDue = FALSE
    /\ lastEnq = 0
    /\ calls = 0
    /\ enqAtDrain = 0
    /\ snapAtCall = 0
    /\ staleAtCall = 0

InitDriver ==
    /\ InitThreads
    /\ device = 0
    /\ open = {}
    /\ good = {}

Init ==
    /\ InitDriver
    /\ CodecIdle
    /\ cfg \in Configs
    /\ script \in Scripts
    /\ devPresent = TRUE
    /\ frameSeq = MaxFrames

ThreadStep(t) ==
    \/ FcEnum(t) \/ FcOpen(t) \/ FcLed(t) \/ FcInit(t) \/ FcConn(t)
    \/ FcRec(t)
    \/ SrlSet(t) \/ SrlChk1(t) \/ SrlChk2(t) \/ SrlWait(t) \/ SrlClear(t)
    \/ ErChk(t) \/ ErSpawn(t)
    \/ HdGuard(t) \/ HdClose(t) \/ HdConn(t) \/ HdRec(t)
    \/ SlDev(t) \/ SlChk1(t) \/ SlChk2(t) \/ SlStart(t)

PollStep(t) ==
    PlTop(t) \/ PlRead(t) \/ PlFull(t) \/ PlReput(t) \/ PlFin(t)

ReconnStep(t) ==
    \/ RlTop(t) \/ RlCRec(t) \/ RlRec(t)
    \/ RlSleep(t) \/ RlSConn(t) \/ RlSRec(t) \/ RlSWanted(t)
    \/ RlBackoff(t)

MainStep ==
    \/ RslSet \/ RslChk \/ RslWait \/ RslClear
    \/ DcClose \/ DcConn \/ DcRec
    \/ RsDev \/ RsErr \/ RsClearErr \/ RsThr1 \/ RsThr2 \/ RsGet \/ RsDrain
    \/ RsDirect \/ RsDecode

Next ==
    \/ \E o \in Ops : MainCall(o)
    \/ MainStep
    \/ \E t \in Threads : ThreadStep(t)
    \/ \E t \in PollIds : PollStep(t)
    \/ \E t \in ReconnIds : ReconnStep(t)
    \/ DeviceLost
    \/ DeviceBack

Spec == Init /\ [][Next]_vars


\* ------------------------------------------------------- properties
\* C1 (last clause): after a poll thread met a read error on a connected
\* driver, the loss never surfaces as an exception of the consumer's
\* read_state call; read_state only returns False.
C1_ReadStateNeverRaises == ~(resumeDue /\ escaped = "read_state")

\* C2: when a running poll thread met the loss, the reconnect loop that
\* re-established the connection (the transport it opened is working)
\* returns only once a poll thread runs again.
C2_PollingResumed ==
    [][\A r \in ReconnIds :
          (/\ pc[r] \in {"rl_s_wanted", "sl_dev", "sl_chk1", "sl_chk2",
                         "sl_start"}
           /\ pc'[r] = "idle"
           /\ resumeDue
           /\ device \in good)
          => \E p \in PollIds :
                 pc'[p] \in {"pl_top", "pl_read", "pl_full", "pl_reput"}]_vars

\* C3: once disconnect() has returned the driver is and stays stopped:
\* connected=false, reconnecting=false, no transport held or open.
C3_StaysStopped ==
    stopped => (~connected /\ ~reconnecting /\ device = 0 /\ open = {})

\* C4: a poll thread runs only while connected=true and a reconnect thread
\* runs its loop only while connected=false.
C4_MutuallyExclusive ==
    /\ \A p \in PollIds :
          pc[p] \in {"pl_top", "pl_read", "pl_full", "pl_reput"} => connected
    /\ \A r \in ReconnIds :
          pc[r] \in {"rl_rec", "rl_sleep", "fc_enum", "fc_open", "fc_led",
                     "fc_init"} => ~connected

\* C6: at most one transport handle is open, and a failed find_and_connect
\* of the reconnect loop leaves no handle open.
C6_OneHandle ==
    /\ Cardinality(open) <= 1
    /\ \A r \in ReconnIds : pc[r] = "rl_backoff" => open = {}

\* C9: at most one poll thread is reading the transport at any time.
C9_OnePollThread == Cardinality({p \in PollIds : pc[p] = "pl_read"}) <= 1


\* ------------------------------------------------------- the frame queue
\* The consumer's inner loop (gui.py: while self.running: read_state())
\* against a connected driver whose poll thread runs and whose link holds.
MaxReads == 2       \* read_state calls of the consumer's inner loop

\* The threads, transport, queue and environment of that driver.
PolledDriver ==
    /\ pc = [t \in Threads |->
               IF t = Main THEN "ready"
               ELSE IF t = <<"poll", 1>> THEN "pl_top" ELSE "idle"]
    /\ stack = [t \in Threads |-> << >>]
    /\ joinTarget = [t \in Threads |-> NoThread]
    /\ device = 1
    /\ open = {1}
    /\ good = {1}
    /\ connected = TRUE
    /\ reconnecting = FALSE
    /\ observed = << TRUE, FALSE >>
    /\ readThread = <<"poll", 1>>
    /\ readStop = FALSE
    /\ lastReadError = FALSE
    /\ readLoopWanted = TRUE
    /\ reconnThread = NoThread
    /\ reconnStop = FALSE
    /\ eventQueue = << >>
    /\ pframe = [t \in PollIds |-> 0]
    /\ delay = [t \in ReconnIds |-> 0]
    /\ latest = 0
    /\ snapshot = 0
    /\ cfg \in Configs
    /\ script = [i \in 1..MaxReads |-> "read_state"]
    /\ devPresent = TRUE
    /\ losses = 0
    /\ frameSeq = 0
    /\ op = "start_read_loop"
    /\ escaped = "none"
    /\ rsResult = FALSE
    /\ rsDecoded = 0
    /\ stopped = FALSE
    /\ resumeDue = FALSE
    /\ lastEnq = 0
    /\ calls = 0
    /\ enqAtDrain = 0
    /\ snapAtCall = 0
    /\ staleAtCall = 0

InitQueue == CodecIdle /\ PolledDriver

NextQueue ==
    \/ MainCall("read_state")
    \/ RsDev \/ RsErr \/ RsThr1 \/ RsThr2 \/ RsGet \/ RsDrain \/ RsDecode
    \/ \E p \in PollIds : PlTop(p) \/ PlRead(p) \/ PlFull(p) \/ PlReput(p)

SpecQueue == InitQueue /\ [][NextQueue]_vars

\* C7: the queue never holds more than its capacity, and as long as no
\* consumer took a frame it holds the most recent frames (all of them, or the
\* QueueCap most recent ones after an overflow) in arrival order.
C7_QueueBounded ==
    /\ Len(eventQueue) <= QueueCap
    /\ (/\ calls = 0
        /\ frameSeq < MaxFrames
        /\ \A p \in PollIds : pc[p] \in {"idle", "pl_top", "pl_read"})
       => LET n == Min(frameSeq, QueueCap)
          IN eventQueue = [i \in 1..n |-> frameSeq - n + i]

\* C7's case: QueueCap + 1 frames were pushed and nobody consumed.
C7_Overflowed ==
    /\ calls = 0
    /\ frameSeq = QueueCap + 1
    /\ \A p \in PollIds : pc[p] \in {"idle", "pl_top", "pl_read"}
    /\ Len(eventQueue) = QueueCap
    /\ Head(eventQueue) = 2

\* C8: a read_state call decodes at most one frame; the frame it decodes is
\* the one most recently enqueued when draining ended, and the snapshot is
\* updated from it; a call that returns False leaves the snapshot unchanged.
C8_DecodesFreshest ==
    /\ rsDecoded <= 1
    /\ pc[Main] = "rs_decode" => latest = enqAtDrain
    /\ (pc[Main] = "ready" /\ op = "read_state" /\ rsResult)
          => (rsDecoded = 1 /\ snapshot = enqAtDrain)
    /\ (pc[Main] = "ready" /\ op = "read_state" /\ ~rsResult)
          => snapshot = snapAtCall


\* ------------------------------------------------------- the retry delay
\* A driver created while the controller is off: the consumer's read_state
\* starts the reconnect loop, which retries until the controller appears.
\* The configurations are config.py's defaults and the constant interval.
BackoffConfigs ==
    {[enabled |-> TRUE, initial_delay |-> 500, max_delay |-> 3000,
      backoff |-> 16, jitter |-> 100],
     [enabled |-> TRUE, initial_delay |-> 1500, max_delay |-> 3000,
      backoff |-> 10, jitter |-> 0]}

InitBackoff ==
    /\ InitDriver
    /\ CodecIdle
    /\ cfg \in BackoffConfigs
    /\ script = << "read_state", "read_state" >>
    /\ devPresent = FALSE
    /\ frameSeq = MaxFrames

NextBackoff ==
    \/ MainCall("read_state")
    \/ RsDev \/ RsErr \/ RsThr1 \/ RsDirect \/ RsDecode
    \/ \E t \in Threads :
          \/ HdGuard(t) \/ SrlSet(t) \/ SrlChk1(t) \/ SrlClear(t)
          \/ HdClose(t) \/ HdConn(t) \/ HdRec(t) \/ ErChk(t) \/ ErSpawn(t)
          \/ FcEnum(t) \/ FcOpen(t) \/ FcLed(t) \/ FcInit(t) \/ FcConn(t)
          \/ FcRec(t)
    \/ \E r \in ReconnIds :
          \/ RlTop(r) \/ RlRec(r) \/ RlSleep(r) \/ RlBackoff(r)
          \/ RlSConn(r) \/ RlSRec(r) \/ RlSWanted(r)
    \/ DeviceLost
    \/ DeviceBack

SpecBackoff == InitBackoff /\ [][NextBackoff]_vars

\* C10: a reconnect loop starts at initial_delay, and after a failed attempt
\* the next delay d' (jitter included) is at most d * backoff_factor and at
\* most max_delay, d being the delay before.
C10_DelayBounded ==
    [][\A r \in ReconnIds :
          /\ (pc[r] = "idle" /\ pc'[r] = "rl_top")
                => delay'[r] = cfg.initial_delay
          /\ (pc[r] = "rl_backoff" /\ pc'[r] = "rl_top")
                => /\ 10 * delay'[r] <= delay[r] * cfg.backoff
                   /\ delay'[r] <= cfg.max_delay]_vars


\* ------------------------------------------------------- self-healing
\* The GUI worker (gui.py, _run_wiimote) for as long as the user does not
\* stop it: find_and_connect, start_read_loop, then read_state over and over.
FairScript == << "find_and_connect", "start_read_loop" >>

\* while self.running: self.wiimote.read_state(); time.sleep(0.01)
MainPoll ==
    /\ pc[Main] = "ready"
    /\ calls = Len(script)
    /\ pc' = [pc EXCEPT ![Main] = "rs_dev"]
    /\ stack' = [stack EXCEPT ![Main] = << >>]
    /\ op' = "read_state"
    /\ escaped' = "none"
    /\ stopped' = FALSE
    /\ rsResult' = FALSE
    /\ rsDecoded' = 0
    /\ latest' = 0
    /\ enqAtDrain' = 0
    /\ snapAtCall' = snapshot
    /\ staleAtCall' = IF lastReadError /\ connected /\ device \in good
                       THEN device ELSE 0
    /\ UNCHANGED << joinTarget, devVars, connVars, readVars, reconnVars,
                    queueVars, snapshot, delay, envVars, resumeDue, calls >>
    /\ UNCHANGED codecVars

InitFair ==
    /\ InitDriver
    /\ CodecIdle
    /\ cfg \in Configs
    /\ script = FairScript
    /\ devPresent = TRUE
    /\ frameSeq = MaxFrames

\* The statements of the shared helpers a thread can stand at in this
\* scenario.  start_read_loop is called once by the application and, after a
\* loss handler has cleared _read_thread, by the reconnect loop, so its
\* is_alive() test of an existing thread object is never reached.
FairThreadStep(t) ==
    \/ FcEnum(t) \/ FcOpen(t) \/ FcLed(t) \/ FcInit(t) \/ FcConn(t)
    \/ FcRec(t)
    \/ SrlSet(t) \/ SrlChk1(t) \/ SrlChk2(t) \/ SrlWait(t) \/ SrlClear(t)
    \/ ErChk(t) \/ ErSpawn(t)
    \/ HdGuard(t) \/ HdClose(t) \/ HdConn(t) \/ HdRec(t)
    \/ SlDev(t) \/ SlChk1(t) \/ SlStart(t)

NextFair ==
    \/ \E o \in Ops : MainCall(o)
    \/ MainPoll
    \/ RsDev \/ RsErr \/ RsClearErr \/ RsThr1 \/ RsThr2 \/ RsGet \/ RsDrain
    \/ RsDirect \/ RsDecode
    \/ \E t \in Threads : FairThreadStep(t)
    \/ \E t \in PollIds : PollStep(t)
    \/ \E t \in ReconnIds : ReconnStep(t)
    \/ DeviceLost
    \/ DeviceBack

\* Threads are scheduled fairly: no thread is left waiting forever with a
\* statement to execute, and the consumer keeps polling.  The device answers
\* the initialization without error: a reconnect attempt that stands before
\* open_path, or before the first write, with the call able to succeed again
\* and again, eventually gets through it.
SpecFair ==
    /\ InitFair
    /\ [][NextFair]_vars
    /\ WF_vars(\E r \in ReconnIds : ReconnStep(r) \/ FairThreadStep(r))
    /\ WF_vars(\E p \in PollIds : PollStep(p) \/ FairThreadStep(p))
    /\ WF_vars(MainPoll \/ RsDev \/ RsErr \/ RsClearErr \/ RsThr1 \/ RsThr2
                 \/ RsGet \/ RsDrain \/ RsDirect \/ RsDecode
                 \/ FairThreadStep(Main))
    /\ SF_vars(\E r \in ReconnIds : FcOpen(r) /\ pc'[r] = "fc_led")
    /\ SF_vars(\E r \in ReconnIds : FcLed(r) /\ pc'[r] = "fc_init")

\* C5: with reconnect enabled, once the reconnect loop runs and the device
\* is (and stays) discoverable, connected=true with reconnecting=false is
\* eventually reached.
C5_EventuallyConnected ==
    (/\ cfg.enabled
     /\ devPresent
     /\ losses = MaxLosses
     /\ \E r \in ReconnIds : pc[r] = "rl_top")
    ~> (connected /\ ~reconnecting)



\* C11: at the granularity of single field writes, reconnecting=true implies
\* connected=false: the two flags of driver_state are never both true.
C11_NeverBothTrue == ~(connected /\ reconnecting)



\* ------------------------------------------------------- report codec
\* src/src/wiimote/protocol.py.  A frame is a sequence of bytes; Python's
\* data[i] is At(data, i).  Python integers do not overflow.
Byte == 0..255
At(d, i) == d[i + 1]
\* data[i:]
From(d, i) == IF i >= Len(d) THEN << >> ELSE SubSeq(d, i + 1, Len(d))
\* data[i:j]
Slice(d, i, j) == IF i >= Min(j, Len(d)) THEN << >> ELSE SubSeq(d, i + 1, Min(j, Len(d)))

\* a & b
RECURSIVE BitAnd(_, _)
BitAnd(a, b) ==
    IF a = 0 \/ b = 0 THEN 0
    ELSE (a % 2) * (b % 2) + 2 * BitAnd(a \div 2, b \div 2)

\* a | b
RECURSIVE BitOr(_, _)
BitOr(a, b) ==
    IF a = 0 THEN b
    ELSE IF b = 0 THEN a
    ELSE Max(a % 2, b % 2) + 2 * BitOr(a \div 2, b \div 2)

\* a << k, a >> k
Shl(a, k) == a * (2 ^ k)
Shr(a, k) == a \div (2 ^ k)

\* ButtonState()
ButtonState ==
    [ A |-> FALSE, B |-> FALSE, One |-> FALSE, Two |-> FALSE, Plus |-> FALSE,
      Minus |-> FALSE, Home |-> FALSE, DPad_Left |-> FALSE,
      DPad_Right |-> FALSE, DPad_Up |-> FALSE, DPad_Down |-> FALSE ]

\* A decoder that takes Home from bit 5 of byte1, the position Home has in
\* the driver's own bitmask (BUTTON_HOME = 0x0020).
parse_buttons_home_0x20(d) ==
    IF Len(d) < 2 THEN ButtonState
    ELSE LET byte0 == At(d, 0)
             byte1 == At(d, 1)
         IN [ DPad_Left |-> BitAnd(byte0, 1) # 0,
              DPad_Right |-> BitAnd(byte0, 2) # 0,
              DPad_Down |-> BitAnd(byte0, 4) # 0,
              DPad_Up |-> BitAnd(byte0, 8) # 0,
              Plus |-> BitAnd(byte0, 16) # 0,
              Two |-> BitAnd(byte1, 1) # 0,
              One |-> BitAnd(byte1, 2) # 0,
              B |-> BitAnd(byte1, 4) # 0,
              A |-> BitAnd(byte1, 8) # 0,
              Minus |-> BitAnd(byte1, 16) # 0,
              Home |-> BitAnd(byte1, 32) # 0 ]

\* WiimoteProtocol.parse_buttons
parse_buttons(d) ==
    IF Len(d) < 2 THEN ButtonState
    ELSE LET byte0 == At(d, 0)
             byte1 == At(d, 1)
         IN [ DPad_Left |-> BitAnd(byte0, 1) # 0,
              DPad_Right |-> BitAnd(byte0, 2) # 0,
              DPad_Down |-> BitAnd(byte0, 4) # 0,
              DPad_Up |-> BitAnd(byte0, 8) # 0,
              Plus |-> BitAnd(byte0, 16) # 0,
              Two |-> BitAnd(byte1, 1) # 0,
              One |-> BitAnd(byte1, 2) # 0,
              B |-> BitAnd(byte1, 4) # 0,
              A |-> BitAnd(byte1, 8) # 0,
              Minus |-> BitAnd(byte1, 16) # 0,
              Home |-> BitAnd(byte1, 128) # 0 ]



\* A decoder that widens every axis by two bits, as it does X.
parse_accelerometer_wide_y(d, off) ==
    IF Len(d) < off + 3 THEN None
    ELSE LET x == At(d, off)
             y == At(d, off + 1)
             z == At(d, off + 2)
         IN IF Len(d) > 1
              THEN Some([ x |-> BitOr(Shl(x, 2), BitAnd(Shr(At(d, 0), 5), 3)),
                          y |-> BitOr(Shl(y, 2), BitAnd(Shr(At(d, 1), 5), 1)),
                          z |-> BitOr(Shl(z, 1), BitAnd(Shr(At(d, 1), 6), 1)) ])
              ELSE Some([ x |-> Shl(x, 2), y |-> Shl(y, 2), z |-> Shl(z, 1) ])

\* WiimoteProtocol.parse_accelerometer
parse_accelerometer(d, off) ==
    IF Len(d) < off + 3 THEN None
    ELSE LET x == At(d, off)
             y == At(d, off + 1)
             z == At(d, off + 2)
         IN IF Len(d) > 1
              THEN Some([ x |-> BitOr(Shl(x, 2), BitAnd(Shr(At(d, 0), 5), 3)),
                          y |-> BitOr(Shl(y, 1), BitAnd(Shr(At(d, 1), 5), 1)),
                          z |-> BitOr(Shl(z, 1), BitAnd(Shr(At(d, 1), 6), 1)) ])
              ELSE Some([ x |-> Shl(x, 2), y |-> Shl(y, 1), z |-> Shl(z, 1) ])

\* IRPoint decoded from the three bytes at base
IRPointAt(d, base) ==
    LET x_lo == At(d, base)
        y_lo == At(d, base + 1)
        packed == At(d, base + 2)
        x_hi == BitAnd(Shr(packed, 4), 3)
        y_hi == BitAnd(Shr(packed, 6), 3)
    IN [ x |-> BitOr(Shl(x_hi, 8), x_lo),
         y |-> BitOr(Shl(y_hi, 8), y_lo),
         size |-> BitAnd(packed, 15) ]

\* A loop that drops a point only when both of its axes read 0x3FF.
RECURSIVE ir_loop_both_axes(_, _, _)
ir_loop_both_axes(d, off, i) ==
    IF i = 4 \/ off + i * 3 + 2 >= Len(d) THEN << >>
    ELSE LET pt == IRPointAt(d, off + i * 3)
         IN (IF ~(pt.x = 1023 /\ pt.y = 1023) THEN << pt >> ELSE << >>)
              \o ir_loop_both_axes(d, off, i + 1)

parse_ir_both_axes(d, off) ==
    IF Len(d) < off + 10 THEN << >> ELSE ir_loop_both_axes(d, off, 0)

\* for i in range(4): ... of parse_ir, from slot i on
RECURSIVE ir_loop(_, _, _)
ir_loop(d, off, i) ==
    IF i = 4 \/ off + i * 3 + 2 >= Len(d) THEN << >>
    ELSE LET pt == IRPointAt(d, off + i * 3)
         IN (IF pt.x # 1023 /\ pt.y # 1023 THEN << pt >> ELSE << >>)
              \o ir_loop(d, off, i + 1)

\* WiimoteProtocol.parse_ir
parse_ir(d, off) ==
    IF Len(d) < off + 10 THEN << >> ELSE ir_loop(d, off, 0)

\* A decoder that takes roll from the third byte pair and pitch from the
\* second.
parse_motionplus_swapped(d, off) ==
    IF Len(d) < off + 6 THEN None
    ELSE LET b0 == At(d, off)
             b1 == At(d, off + 1)
             b2 == At(d, off + 2)
             b3 == At(d, off + 3)
             b4 == At(d, off + 4)
             b5 == At(d, off + 5)
         IN Some([ yaw |-> BitOr(b0, Shl(BitAnd(b3, 252), 6)),
                   roll |-> BitOr(b2, Shl(BitAnd(b5, 252), 6)),
                   pitch |-> BitOr(b1, Shl(BitAnd(b4, 252), 6)),
                   yaw_fast |-> BitAnd(b3, 2) = 0,
                   roll_fast |-> BitAnd(b4, 2) = 0,
                   pitch_fast |-> BitAnd(b5, 2) = 0,
                   extension_connected |-> BitAnd(b5, 1) = 0 ])

\* WiimoteProtocol.parse_motionplus
parse_motionplus(d, off) ==
    IF Len(d) < off + 6 THEN None
    ELSE LET b0 == At(d, off)
             b1 == At(d, off + 1)
             b2 == At(d, off + 2)
             b3 == At(d, off + 3)
             b4 == At(d, off + 4)
             b5 == At(d, off + 5)
         IN Some([ yaw |-> BitOr(b0, Shl(BitAnd(b3, 252), 6)),
                   roll |-> BitOr(b1, Shl(BitAnd(b4, 252), 6)),
                   pitch |-> BitOr(b2, Shl(BitAnd(b5, 252), 6)),
                   yaw_fast |-> BitAnd(b3, 2) = 0,
                   roll_fast |-> BitAnd(b4, 2) = 0,
                   pitch_fast |-> BitAnd(b5, 2) = 0,
                   extension_connected |-> BitAnd(b5, 1) = 0 ])

\* A decoder that reads the buttons active-high.
parse_nunchuk_active_high(d, off) ==
    IF Len(d) < off + 6 THEN None
    ELSE LET btns == At(d, off + 5)
         IN Some([ stick_x |-> At(d, off),
                   stick_y |-> At(d, off + 1),
                   accel_x |-> BitOr(Shl(At(d, off + 2), 2), BitAnd(Shr(btns, 2), 3)),
                   accel_y |-> BitOr(Shl(At(d, off + 3), 2), BitAnd(Shr(btns, 4), 3)),
                   accel_z |-> BitOr(Shl(At(d, off + 4), 2), BitAnd(Shr(btns, 6), 3)),
                   C |-> BitAnd(btns, 2) # 0,
                   Z |-> BitAnd(btns, 1) # 0 ])

\* WiimoteProtocol.parse_nunchuk
parse_nunchuk(d, off) ==
    IF Len(d) < off + 6 THEN None
    ELSE LET btns == At(d, off + 5)
         IN Some([ stick_x |-> At(d, off),
                   stick_y |-> At(d, off + 1),
                   accel_x |-> BitOr(Shl(At(d, off + 2), 2), BitAnd(Shr(btns, 2), 3)),
                   accel_y |-> BitOr(Shl(At(d, off + 3), 2), BitAnd(Shr(btns, 4), 3)),
                   accel_z |-> BitOr(Shl(At(d, off + 4), 2), BitAnd(Shr(btns, 6), 3)),
                   C |-> BitAnd(btns, 2) = 0,
                   Z |-> BitAnd(btns, 1) = 0 ])



\* The result dictionary parse_report starts from
EmptyResult ==
    [ buttons |-> None, accel |-> None, ir_points |-> << >>,
      battery |-> None, report_type |-> None, motionplus |-> None,
      nunchuk |-> None, events |-> << >> ]

\* WiimoteProtocol.parse_report; ext is the extension argument
\* ("none" for None).  int((battery_raw / 255.0) * 100) equals
\* (battery_raw * 100) \div 255 for every byte.
parse_report(d, ext) ==
    IF Len(d) < 2 THEN EmptyResult
    ELSE IF At(d, 0) # 161 THEN EmptyResult
    ELSE LET report_type == At(d, 1)
             payload == From(d, 2)
         IN IF report_type >= 48 /\ report_type <= 63
              THEN LET buttons == Some(parse_buttons(payload))
                       accel == IF report_type \in {49, 50, 51, 53, 54, 55}
                                  THEN parse_accelerometer(payload, 2)
                                  ELSE None
                       ir_points == IF report_type = 51 THEN parse_ir(payload, 5)
                                    ELSE IF report_type = 54 THEN parse_ir(payload, 2)
                                    ELSE IF report_type = 55 THEN parse_ir(payload, 5)
                                    ELSE << >>
                       has_ext == report_type \in {50, 53, 54, 55}
                       extension_offset == IF report_type = 55 THEN 15 ELSE 5
                       extension_data == From(payload, extension_offset)
                       motionplus == IF has_ext /\ ext = "motionplus"
                                       THEN parse_motionplus(extension_data, 0)
                                       ELSE None
                       nunchuk == IF has_ext /\ ext = "nunchuk"
                                    THEN parse_nunchuk(extension_data, 0)
                                    ELSE None
                   IN [ buttons |-> buttons,
                        accel |-> accel,
                        ir_points |-> ir_points,
                        battery |-> None,
                        report_type |-> Some(report_type),
                        motionplus |-> motionplus,
                        nunchuk |-> nunchuk,
                        events |-> << "buttons" >>
                                   \o (IF accel # None THEN << "accel" >> ELSE << >>)
                                   \o (IF ir_points # << >> THEN << "ir" >> ELSE << >>)
                                   \o (IF motionplus # None THEN << "motionplus" >> ELSE << >>)
                                   \o (IF nunchuk # None THEN << "nunchuk" >> ELSE << >>) ]
            ELSE IF report_type = 32 /\ Len(d) >= 7
              THEN [ EmptyResult EXCEPT !.report_type = Some(report_type),
                                        !.battery = Some((At(d, 6) * 100) \div 255) ]
            ELSE [ EmptyResult EXCEPT !.report_type = Some(report_type) ]



\* ------------------------------------------------------- driver decode
\* LowPassFilter.apply with alpha = 0.25: the first sample passes through,
\* later ones give alpha * value + (1 - alpha) * _value.  The value is kept
\* as the exact fraction << n, d >>.
LowPassApply(f, value) ==
    IF f = None THEN Some(<< value, 1 >>)
    ELSE Some(<< value * f[1][2] + 3 * f[1][1], 4 * f[1][2] >>)

\* int(filtered) of a filter that holds a non-negative value
FilterInt(f) == f[1][1] \div f[1][2]

\* Python's int(bool)
AsInt(b) == IF b THEN 1 ELSE 0

\* WiimoteDriver._button_state_to_mask
_button_state_to_mask(b) ==
    AsInt(b.Two) + 2 * AsInt(b.One) + 4 * AsInt(b.B) + 8 * AsInt(b.A)
      + 16 * AsInt(b.Minus) + 32 * AsInt(b.Home) + 64 * AsInt(b.Plus)
      + 128 * AsInt(b.DPad_Left) + 256 * AsInt(b.DPad_Right)
      + 512 * AsInt(b.DPad_Down) + 1024 * AsInt(b.DPad_Up)

\* WiimoteDriver._normalize_report: << report_id, offset >>
_normalize_report(payload) ==
    IF payload = << >> THEN << None, 0 >>
    ELSE IF At(payload, 0) = 161 /\ Len(payload) > 1 THEN << Some(At(payload, 1)), 2 >>
    ELSE IF At(payload, 0) >= 32 /\ At(payload, 0) <= 63 THEN << Some(At(payload, 0)), 1 >>
    ELSE << None, 0 >>

\* The score read_state gives a 6-byte MotionPlus candidate
motionplus_score(candidate) ==
    Only({ LET high_bits == AsInt(BitAnd(At(candidate, 3), 252) # 0)
                              + AsInt(BitAnd(At(candidate, 4), 252) # 0)
                              + AsInt(BitAnd(At(candidate, 5), 252) # 0)
               values == << mp.roll, mp.pitch, mp.yaw >>
               in_range == Cardinality({i \in 1..3 : values[i] >= 1000
                                                      /\ values[i] <= 16000})
               non_zero == Cardinality({i \in 1..3 : values[i] # 0})
           IN (high_bits * 3) + (in_range * 2) + non_zero
           : mp \in { parse_motionplus(candidate, 0)[1] } })

\* The loop over candidate windows: best is << best_score, best_offset >>,
\* best_score = -1 while best_mp is None.
RECURSIVE scan_windows(_, _, _, _)
scan_windows(bytes, start, last, best) ==
    IF start > last THEN best
    ELSE LET candidate == Slice(bytes, start, start + 6)
         IN IF parse_motionplus(candidate, 0) = None
              THEN scan_windows(bytes, start + 1, last, best)
            ELSE Only({ IF score > best[1]
                          THEN scan_windows(bytes, start + 1, last, << score, start >>)
                          ELSE scan_windows(bytes, start + 1, last, best)
                        : score \in { motionplus_score(candidate) } })

\* The gyro_extension_bytes a scan selects (None when no window scores 2)
best_window(bytes, last) ==
    Only({ IF best[1] >= 2 THEN Some(Slice(bytes, best[2], best[2] + 6)) ELSE None
           : best \in { scan_windows(bytes, 0, last, << -1, 0 >>) } })

\* (gyro_raw_x, gyro_raw_y, gyro_raw_z) = (roll, pitch, yaw) of a block
gyro_axes(block) ==
    Only({ << mp.roll, mp.pitch, mp.yaw >>
           : mp \in { parse_motionplus(block, 0)[1] } })

\* The driver's own extension offset within raw_payload (tag at index 0)
driver_extension_offset(raw_payload, report_id) ==
    LET base_offset == IF At(raw_payload, 0) = report_id THEN 1 ELSE 0
        accel_offset == base_offset + 2
    IN IF report_id \in {54, 55} THEN accel_offset + 3 + 10 ELSE accel_offset + 3

\* extension_bytes of a 0x32/0x35/0x36/0x37 report (None when the frame
\* ends before the extension block)
extension_block(raw_payload, report_id) ==
    LET extension_offset == driver_extension_offset(raw_payload, report_id)
        expected_len == IF report_id = 50 THEN 8
                        ELSE IF report_id = 53 THEN 16
                        ELSE IF report_id = 55 THEN 6 ELSE 16
        extension_len == IF extension_offset < Len(raw_payload)
                           THEN Min(expected_len, Len(raw_payload) - extension_offset)
                           ELSE 0
    IN IF extension_len > 0
         THEN Some(Slice(raw_payload, extension_offset, extension_offset + extension_len))
         ELSE None

\* mode in ("MotionPlus", "Gyro", "Hybrid")
wants_motionplus(m) == m \in {"MotionPlus", "Gyro", "Hybrid"}

\* The driver looks for MotionPlus data
seeks_motionplus(ext, m) == ext = "motionplus" \/ (ext = "none" /\ wants_motionplus(m))

\* gyro_extension_bytes after the scan of the extension block and the
\* fallback scan of the whole payload
gyro_extension_bytes(raw_payload, report_id, ext, m) ==
    IF report_id \notin {50, 53, 54, 55} \/ ~seeks_motionplus(ext, m) THEN None
    ELSE LET extension_bytes == extension_block(raw_payload, report_id)
             first == IF extension_bytes = None THEN None
                      ELSE best_window(extension_bytes[1],
                                       Max(0, Len(extension_bytes[1]) - 6))
             scan_data == IF At(raw_payload, 0) = report_id
                            THEN From(raw_payload, 1) ELSE raw_payload
         IN Only({ IF found # None THEN found
                   ELSE IF Len(scan_data) >= 6
                     THEN best_window(scan_data, Len(scan_data) - 6)
                   ELSE None
                   : found \in { first } })

\* Bytes b for which the double (b / 200.0) * 100 lies just below b / 2
RoundedDown200 == {58, 114, 116, 226, 228, 230, 232}

\* min(100, int((battery_raw / 200.0) * 100))
battery_percent(battery_raw) ==
    Min(100, ((battery_raw * 100) \div 200)
               - (IF battery_raw \in RoundedDown200 THEN 1 ELSE 0))

\* What _check_motionplus_active finds when it reads the extension ids
ProbeOutcomes == {"active", "inactive", "unknown"}

\* (flags & 0x02) == 0 in a status report
status_extension_present(payload, offset_) ==
    BitAnd(At(payload, offset_ + 2), 2) = 0

\* battery_raw of a status report
status_battery_raw(payload, offset_) ==
    IF Len(payload) >= offset_ + 6 THEN At(payload, offset_ + 5)
    ELSE IF Len(payload) >= offset_ + 5 THEN At(payload, offset_ + 4)
    ELSE At(payload, Len(payload) - 1)

\* read_state on a status report (tag 0x20): the buttons, the flags, the
\* battery, and then what _check_motionplus_active writes when the
\* extension is a MotionPlus
decode_status(st, payload, offset_, ext, probe) ==
    [st EXCEPT
       !.buttons = IF Len(payload) >= offset_ + 2
                     THEN BitOr(Shl(At(payload, offset_), 8), At(payload, offset_ + 1))
                     ELSE @,
       !.extension_connected =
           IF ext = "motionplus" /\ probe = "active" THEN Some(TRUE)
           ELSE IF Len(payload) >= offset_ + 4
             THEN Some(status_extension_present(payload, offset_))
           ELSE @,
       !.motionplus_connected =
           IF ext = "motionplus" /\ probe = "active" THEN Some(TRUE)
           ELSE IF ext = "motionplus" /\ probe = "inactive" THEN Some(FALSE)
           ELSE IF Len(payload) >= offset_ + 4
                     /\ ~status_extension_present(payload, offset_)
             THEN Some(FALSE)
           ELSE @,
       !.nunchuk_connected =
           IF Len(payload) >= offset_ + 4
                /\ ~status_extension_present(payload, offset_)
             THEN Some(FALSE)
             ELSE @,
       !.battery_level = battery_percent(status_battery_raw(payload, offset_))]

\* The gyro sample read_state settles on for a data report, as
\* << gyro_raw_x, gyro_raw_y, gyro_raw_z >> (None when there is none):
\* the chain of "if gyro is None and ..." steps, first match first
decode_gyro(result, raw_payload, report_id, ext, m, geb) ==
    IF result.motionplus # None
      THEN Some(<< result.motionplus[1].roll, result.motionplus[1].pitch,
                   result.motionplus[1].yaw >>)
    ELSE IF ext = "motionplus" /\ report_id \in {Some(49), Some(51)}
              /\ Len(raw_payload) > 9
      \* the tuple (gyro_x, gyro_y, gyro_z) is read back as (yaw, pitch, roll)
      THEN Some(<< At(raw_payload, 8),
                   BitOr(At(raw_payload, 7), Shl(BitAnd(At(raw_payload, 9), 3), 8)),
                   BitOr(At(raw_payload, 6), Shl(BitAnd(At(raw_payload, 9), 252), 6)) >>)
    ELSE IF report_id \in {Some(49), Some(50), Some(53), Some(55)}
              /\ seeks_motionplus(ext, m)
              /\ Len(raw_payload)
                   >= driver_extension_offset(raw_payload, report_id[1]) + 6
      THEN Some(gyro_axes(From(raw_payload,
                               driver_extension_offset(raw_payload, report_id[1]))))
    ELSE IF geb # None /\ report_id \in {Some(50), Some(53), Some(55)}
      THEN Some(gyro_axes(geb[1]))
    ELSE None

\* The three filters of a sensor applied to a sample
apply_filters(filters, v) ==
    << LowPassApply(filters[1], v[1]), LowPassApply(filters[2], v[2]),
       LowPassApply(filters[3], v[3]) >>

\* (int(filtered[0]), int(filtered[1]), int(filtered[2]))
filtered_ints(filters) ==
    << FilterInt(filters[1]), FilterInt(filters[2]), FilterInt(filters[3]) >>

\* (accel.x, accel.y, accel.z)
accel_values(accel) == << accel.x, accel.y, accel.z >>

\* The fields read_state writes from parse_report's result and the gyro
\* sample (nunchuk_connected is True at the flag test exactly when the
\* result held a nunchuk)
store_report(st, result, gyro, ext) ==
    [st EXCEPT
       !.buttons = IF result.buttons # None
                     THEN _button_state_to_mask(result.buttons[1])
                     ELSE @,
       !.accel_filters = IF result.accel # None
                           THEN apply_filters(@, accel_values(result.accel[1]))
                           ELSE @,
       !.accel = IF result.accel # None
                   THEN filtered_ints(apply_filters(st.accel_filters,
                                                    accel_values(result.accel[1])))
                   ELSE @,
       !.gyro_raw = IF gyro # None
                      THEN << Some(gyro[1][1]), Some(gyro[1][2]), Some(gyro[1][3]) >>
                      ELSE @,
       !.gyro_filters = IF gyro # None THEN apply_filters(@, gyro[1]) ELSE @,
       !.gyro = IF gyro # None
                  THEN filtered_ints(apply_filters(st.gyro_filters, gyro[1]))
                  ELSE @,
       !.ir_visible = result.ir_points # << >>,
       !.ir_x = IF result.ir_points # << >> THEN result.ir_points[1].x ELSE @,
       !.ir_y = IF result.ir_points # << >> THEN result.ir_points[1].y ELSE @,
       !.nunchuk_connected = IF result.nunchuk # None THEN Some(TRUE)
                             ELSE IF ext = "nunchuk" THEN Some(FALSE)
                             ELSE None,
       !.nunchuk_stick = IF result.nunchuk # None
                           THEN << Some(result.nunchuk[1].stick_x),
                                   Some(result.nunchuk[1].stick_y) >>
                           ELSE @,
       !.nunchuk_c = IF result.nunchuk # None THEN result.nunchuk[1].C ELSE @,
       !.nunchuk_z = IF result.nunchuk # None THEN result.nunchuk[1].Z ELSE @,
       !.motionplus_connected =
           IF gyro # None THEN Some(TRUE)
           ELSE IF ext = "nunchuk" /\ result.nunchuk # None THEN Some(FALSE)
           ELSE IF ext = "none" THEN None
           ELSE Some(FALSE),
       !.extension_connected =
           IF gyro # None THEN Some(TRUE)
           ELSE IF ext = "nunchuk" /\ result.nunchuk # None THEN Some(TRUE)
           ELSE IF ext = "none" THEN None
           ELSE Some(FALSE)]

\* data_for_parse
data_for_parse(payload) ==
    IF At(payload, 0) = 161 THEN payload ELSE << 161 >> \o payload

\* read_state on any other frame: parse_report, the gyro sample, the writes
decode_data(st, payload, raw_payload, report_id, ext, m, geb) ==
    Only({ Only({ store_report(st, result, gyro, ext)
                  : gyro \in { decode_gyro(result, raw_payload, report_id,
                                           ext, m, geb) } })
           : result \in { parse_report(data_for_parse(payload), ext) } })

\* self.state after the scans for a MotionPlus block
store_scan(st, geb) ==
    IF geb = None THEN st
    ELSE Only({ [st EXCEPT !.gyro_raw = << Some(g[1]), Some(g[2]), Some(g[3]) >>]
                : g \in { gyro_axes(geb[1]) } })

\* The decode step of read_state on one frame, motionplus_enabled being
\* True and the calibration offsets zero as __init__ leaves them:
\* [state |-> self.state afterwards, ret |-> the value returned]
read_state_decode(st, payload, ext, m, probe) ==
    IF ~(Len(payload) > 2) THEN [state |-> st, ret |-> FALSE]
    ELSE LET raw_payload == IF At(payload, 0) = 161 THEN From(payload, 1) ELSE payload
             norm == _normalize_report(payload)
             report_id == norm[1]
             s1 == IF report_id # None THEN [st EXCEPT !.last_report_id = report_id]
                   ELSE st
         IN Only({ IF report_id = Some(32)
                     THEN [state |-> decode_status(store_scan(s1, geb), payload,
                                                   norm[2], ext, probe),
                           ret |-> TRUE]
                     ELSE [state |-> decode_data(store_scan(s1, geb), payload,
                                                 raw_payload, report_id, ext, m, geb),
                           ret |-> TRUE]
                   : geb \in { IF report_id = None THEN None
                               ELSE gyro_extension_bytes(raw_payload, report_id[1],
                                                         ext, m) } })

\* ------------------------------------------------------- decoder calls
lifeVars == << pc, stack, escaped, joinTarget, devVars, connVars, readVars,
               reconnVars, queueVars, rsVars, delay, envVars, ghostVars >>

\* Values the other button byte takes while one byte runs over all 256.
ButtonFill == {0, 12, 16, 255}

\* Every value of each button byte (a button depends on one byte only), and
\* the inputs too short to hold both.
ButtonInputs == { << b0, b1 >> : b0 \in Byte, b1 \in ButtonFill }
                  \cup { << b0, b1 >> : b0 \in ButtonFill, b1 \in Byte }
                  \cup { << b0 >> : b0 \in {0, 255} } \cup { << >> }

\* Button bytes carrying every value of the stolen accelerometer bits
\* (byte0 bits 5-6, byte1 bits 5-6) with the button bits clear and set.
StolenBytes == {0, 32, 64, 96, 159, 191, 223, 255}

\* 8-bit samples at the ends, the middle and the bit patterns 01.. and 10..
AccelSamples == {0, 1, 85, 127, 128, 170, 254, 255}

\* Buttons + 3 accelerometer bytes, the three axes carrying different
\* samples: every 8-bit sample with the stolen bits all clear and all set,
\* every value of the stolen bits with the samples above; and the inputs
\* cut short.
AccelInputs ==
    { << b, b, base, (base + 85) % 256, 255 - base >> :
          b \in {0, 255}, base \in Byte }
      \cup { << b0, b1, base, (base + 85) % 256, 255 - base >> :
                 b0 \in StolenBytes, b1 \in StolenBytes, base \in AccelSamples }
      \cup { << 0, 0, 128, 128 >>, << 0, 0 >>, << >> }

\* 3-byte IR slots: the point of the protocol test, an invisible slot, a slot
\* with only x = 0x3FF, one with only y = 0x3FF, the origin, and a far corner.
IRSlots == { << 52, 18, 106 >>, << 255, 255, 240 >>, << 255, 0, 48 >>,
             << 0, 255, 192 >>, << 0, 0, 0 >>, << 254, 255, 255 >> }

\* Four slots after 5 bytes of buttons and accelerometer, cut to a block of
\* 9, 10, 11 or 12 bytes.
IRInputs ==
    { SubSeq(<< 0, 0, 0, 0, 0 >> \o s1 \o s2 \o s3 \o s4, 1, 5 + n) :
          s1 \in IRSlots, s2 \in IRSlots, s3 \in IRSlots,
          s4 \in {<< 255, 255, 240 >>, << 52, 18, 106 >>, << 0, 255, 192 >>},
          n \in 9..12 }

\* High/flag bytes of a MotionPlus block.
GyroHigh == {0, 1, 2, 3, 252, 255}
MotionPlusInputs ==
    { << b0, b1, b2, b3, b4, b5 >> :
          b0 \in {16, 255}, b1 \in {32, 0}, b2 \in {48, 1},
          b3 \in GyroHigh, b4 \in GyroHigh, b5 \in GyroHigh }
      \cup { << 16, 32, 48, 252, 252 >>, << >> }

\* Nunchuk blocks: every value of the last byte (stolen bits and buttons)
\* after four settings of the stick and accelerometer bytes.
NunchukInputs ==
    { b \o << b5 >> :
          b \in { << 128, 144, 32, 48, 64 >>, << 0, 255, 255, 0, 255 >>,
                  << 1, 2, 3, 4, 5 >>, << 255, 0, 0, 255, 0 >> },
          b5 \in Byte }
      \cup { << 128, 144, 32, 48, 64 >>, << >> }

PureCalls ==
    { [call |-> "parse_buttons", data |-> d, offset |-> 0, extension |-> "none", mode |-> "MotionPlus"] :
          d \in ButtonInputs }
      \cup { [call |-> "parse_accelerometer", data |-> d, offset |-> 2, extension |-> "none", mode |-> "MotionPlus"] :
                 d \in AccelInputs }
      \cup { [call |-> "parse_ir", data |-> d, offset |-> 5, extension |-> "none", mode |-> "MotionPlus"] :
                 d \in IRInputs }
      \cup { [call |-> "parse_motionplus", data |-> d, offset |-> 0, extension |-> "none", mode |-> "MotionPlus"] :
                 d \in MotionPlusInputs }
      \cup { [call |-> "parse_nunchuk", data |-> d, offset |-> 0, extension |-> "none", mode |-> "MotionPlus"] :
                 d \in NunchukInputs }

Returns(v) ==
    /\ ~done
    /\ done' = TRUE
    /\ ret' = Some(v)
    /\ UNCHANGED << call, data, offset, extension, mode, wstate, prior, cal,
                    offsets, args, mouse, link, drv, lifeVars >>

ParseButtons == call = "parse_buttons" /\ Returns(parse_buttons(data))

ParseAccelerometer ==
    call = "parse_accelerometer" /\ Returns(parse_accelerometer(data, offset))

ParseIr == call = "parse_ir" /\ Returns(parse_ir(data, offset))

ParseMotionplus ==
    call = "parse_motionplus" /\ Returns(parse_motionplus(data, offset))

ParseNunchuk == call = "parse_nunchuk" /\ Returns(parse_nunchuk(data, offset))



\* Longest payload (bytes after the report tag) the device is made to send:
\* buttons(2) + accelerometer(3) + IR(10) + extension(6).
MaxPayload == 21

\* Report tags of the layout table, and two outside it.
ReportTags == {32, 48, 49, 50, 51, 53, 54, 55}
OtherTags == {33, 63}

\* Payloads in which every position carries a different byte; the second
\* one holds the button, IR, and nunchuk samples of the protocol tests.
PayloadA == [i \in 1..MaxPayload |-> ((i - 1) * 37 + 11) % 256]
PayloadB == << 16, 12, 128, 129, 130, 52, 18, 106, 255, 255, 240, 1, 2, 3,
               4, 128, 144, 32, 48, 64, 217 >>
\* A held button and an accelerometer sample followed by zero bytes only;
\* and the same with a MotionPlus block 16 32 48 fc fc fc starting six
\* bytes into the extension block of tags 0x32 and 0x35.
PayloadC == << 0, 8, 128, 129, 130, 0, 0, 0, 0, 0, 0, 0, 0, 0, 0, 0, 0, 0, 0,
               0, 0 >>
PayloadD == << 0, 8, 128, 129, 130, 0, 0, 0, 0, 0, 0, 16, 32, 48, 252, 252,
               252, 0, 0, 0, 0 >>
Payloads == {PayloadA, PayloadB, PayloadC, PayloadD}

Extensions == {"none", "motionplus", "nunchuk"}

\* Battery bytes: empty, 0x80, full on the 0-200 scale, 0xFF, and a value
\* whose percentage is not exact in floating point.
BatterySamples == {0, 58, 128, 200, 255}

\* Status reports a1 20 BB BB LF 00 00 VV, whole and cut short.
StatusBodies ==
    { SubSeq(<< 0, 8, lf, 0, v6, v7 >>, 1, n) :
          lf \in {0, 2}, v6 \in BatterySamples, v7 \in BatterySamples, n \in 0..6 }

\* Data reports of every tag, whole and cut at every length.
DataBodies ==
    { SubSeq(p, 1, n) : p \in Payloads, n \in 0..Min(MaxPayload, Len(PayloadB)) }

\* Frames with the 0xa1 prefix parse_report expects, frames as hidapi
\* delivers them (tag first), the empty frame and a frame of another kind.
ReportFrames ==
    { << 161, 32 >> \o b : b \in StatusBodies }
      \cup { << 161, t >> \o b : t \in (ReportTags \cup OtherTags) \ {32}, b \in DataBodies }
      \cup { << >>, << 161 >>, << 162, 48, 16, 12, 128, 128, 128 >> }

ReportCalls ==
    { [call |-> "parse_report", data |-> d, offset |-> 0, extension |-> e,
        mode |-> "MotionPlus"] :
          d \in ReportFrames, e \in Extensions }

ParseReport == call = "parse_report" /\ Returns(parse_report(data, extension))

CodecCalls == PureCalls \cup ReportCalls

\* Frames handed to read_state: with the 0xa1 prefix and as hidapi delivers
\* them, the report tag first.
\* The last frame is a status report sent while Plus and Home are held.
ReadStateFrames ==
    ReportFrames \cup { From(f, 1) : f \in { g \in ReportFrames : Len(g) >= 2 } }
      \cup { << 161, 32, 16, 128, 0, 0, 0, 160 >> }

\* The snapshot after a status report (battery byte 160) and a full 0x37
\* report with A, B and Plus held and an IR point in view.
SeenState(ext, m) ==
    read_state_decode(
        read_state_decode(WiimoteState, << 161, 32, 0, 8, 0, 0, 0, 160 >>,
                          ext, m, "unknown").state,
        << 161, 55 >> \o PayloadB, ext, m, "unknown").state

\* The mode only matters when no extension is configured.
ReadStateCalls ==
    { c \in { [call |-> "read_state", data |-> d, offset |-> 0, extension |-> e,
                mode |-> m, state |-> st] :
                  d \in ReadStateFrames, e \in Extensions,
                  m \in {"MotionPlus", "IR"}, st \in {"new", "seen"} } :
          c.extension = "none" \/ c.mode = "MotionPlus" }

\* read_state from the frame in hand to its return
ReadStateDecode ==
    /\ call = "read_state"
    /\ ~done
    /\ \E probe \in ProbeOutcomes :
          LET r == read_state_decode(wstate, data, extension, mode, probe)
          IN /\ wstate' = r.state
             /\ ret' = Some(r.ret)
    /\ done' = TRUE
    /\ UNCHANGED << call, data, offset, extension, mode, prior, cal, offsets,
                    args, mouse, link, drv, lifeVars >>

InitCodec ==
    /\ InitDriver
    /\ cfg \in {c \in Configs : c.enabled}
    /\ script = << >>
    /\ devPresent = TRUE
    /\ frameSeq = 0
    /\ \/ \E c \in CodecCalls :
             /\ call = c.call
             /\ data = c.data
             /\ offset = c.offset
             /\ extension = c.extension
             /\ mode = c.mode
             /\ wstate = WiimoteState
       \/ \E c \in ReadStateCalls :
             /\ call = c.call
             /\ data = c.data
             /\ offset = c.offset
             /\ extension = c.extension
             /\ mode = c.mode
             /\ wstate = IF c.state = "new" THEN WiimoteState
                          ELSE SeenState(c.extension, c.mode)
    /\ prior = wstate
    /\ done = FALSE
    /\ ret = None
    /\ cal = CalIdle
    /\ offsets = NoOffsets
    /\ args = None
    /\ mouse = NoMouse
    /\ link = NoLink
    /\ drv = NoDrv

NextCodec ==
    \/ ParseButtons
    \/ ParseAccelerometer
    \/ ParseIr
    \/ ParseMotionplus
    \/ ParseNunchuk
    \/ ParseReport
    \/ ReadStateDecode

SpecCodec == InitCodec /\ [][NextCodec]_vars



\* ------------------------------------------------------- codec properties
\* C14: for every pair of button bytes, parse_buttons reports a button
\* pressed exactly when its bit is set: byte0 bits 0-3 = D-pad
\* left/right/down/up, bit 4 = Plus; byte1 bits 0-4 = Two/One/B/A/Minus,
\* bit 7 = Home; no other bit matters, and [0x10, 0x0C] is exactly
\* {Plus, B, A}.
C14_ButtonBits ==
    (call = "parse_buttons" /\ done /\ Len(data) = 2) =>
        LET b == ret[1]
            byte0 == data[1]
            byte1 == data[2]
        IN /\ b.DPad_Left = (byte0 % 2 = 1)
           /\ b.DPad_Right = ((byte0 \div 2) % 2 = 1)
           /\ b.DPad_Down = ((byte0 \div 4) % 2 = 1)
           /\ b.DPad_Up = ((byte0 \div 8) % 2 = 1)
           /\ b.Plus = ((byte0 \div 16) % 2 = 1)
           /\ b.Two = (byte1 % 2 = 1)
           /\ b.One = ((byte1 \div 2) % 2 = 1)
           /\ b.B = ((byte1 \div 4) % 2 = 1)
           /\ b.A = ((byte1 \div 8) % 2 = 1)
           /\ b.Minus = ((byte1 \div 16) % 2 = 1)
           /\ b.Home = ((byte1 \div 128) % 2 = 1)
           /\ DOMAIN b = DOMAIN ButtonState
           /\ (data = << 16, 12 >> =>
                  {n \in DOMAIN b : b[n]} = {"Plus", "B", "A"})

C14_PlusBA ==
    /\ call = "parse_buttons"
    /\ done
    /\ data = << 16, 12 >>
    /\ ret[1].Plus /\ ret[1].B /\ ret[1].A

C16_IRPoints ==
    (call = "parse_ir" /\ done /\ Len(data) >= offset + 10) =>
        LET n == Cardinality({i \in 0..3 : offset + 3 * i + 3 <= Len(data)})
            point(base) ==
                [ x |-> ((data[base + 3] \div 16) % 4) * 256 + data[base + 1],
                  y |-> ((data[base + 3] \div 64) % 4) * 256 + data[base + 2],
                  size |-> data[base + 3] % 16 ]
            slots == [i \in 1..n |-> point(offset + 3 * (i - 1))]
            visible(p) == p.x # 1023 /\ p.y # 1023
        IN /\ ret[1] = SelectSeq(slots, visible)
           /\ (SubSeq(data, offset + 1, offset + 3) = << 52, 18, 106 >> =>
                  /\ ret[1] # << >>
                  /\ ret[1][1] = [x |-> 564, y |-> 274, size |-> 10])

C16_OneVisible ==
    /\ call = "parse_ir"
    /\ done
    /\ data = << 0, 0, 0, 0, 0, 52, 18, 106, 255, 255, 240, 255, 255, 240,
                 255, 255, 240 >>
    /\ Len(ret[1]) = 1

\* C17: for every 6 bytes b0..b5, parse_motionplus returns
\* yaw = b0 | ((b3 & 0xFC)<<6), roll = b1 | ((b4 & 0xFC)<<6),
\* pitch = b2 | ((b5 & 0xFC)<<6), each within 0..0x3FFF, present = (bit 0 of
\* b5 is 0), each axis fast flag = (bit 1 of b3/b4/b5 is 0); fewer than 6
\* bytes give None; [0x10,0x20,0x30,0xFC,0xFC,0xFC] gives 0x3F10, 0x3F20,
\* 0x3F30, present.
C17_MotionPlus ==
    (call = "parse_motionplus" /\ done) =>
        IF Len(data) < 6 THEN ret[1] = None
        ELSE /\ ret[1] # None
             /\ LET m == ret[1][1]
                IN /\ m.yaw = data[1] + (data[4] \div 4) * 256
                   /\ m.roll = data[2] + (data[5] \div 4) * 256
                   /\ m.pitch = data[3] + (data[6] \div 4) * 256
                   /\ m.yaw \in 0..16383 /\ m.roll \in 0..16383
                   /\ m.pitch \in 0..16383
                   /\ m.extension_connected = (data[6] % 2 = 0)
                   /\ m.yaw_fast = ((data[4] \div 2) % 2 = 0)
                   /\ m.roll_fast = ((data[5] \div 2) % 2 = 0)
                   /\ m.pitch_fast = ((data[6] \div 2) % 2 = 0)
                   /\ (data = << 16, 32, 48, 252, 252, 252 >> =>
                          /\ m.yaw = 16144 /\ m.roll = 16160 /\ m.pitch = 16176
                          /\ m.extension_connected)

C17_TestBlock ==
    /\ call = "parse_motionplus"
    /\ done
    /\ data = << 16, 32, 48, 252, 252, 252 >>
    /\ ret[1][1].yaw = 16144

\* C18: for every 6 bytes b0..b5, parse_nunchuk returns stick_x=b0,
\* stick_y=b1, accel_x=(b2<<2)|((b5>>2)&3), accel_y=(b3<<2)|((b5>>4)&3),
\* accel_z=(b4<<2)|((b5>>6)&3), C pressed iff bit 1 of b5 is 0, Z pressed
\* iff bit 0 of b5 is 0; [0x80,0x90,0x20,0x30,0x40,0xD9] gives accel
\* 0x82/0xC1/0x103, C pressed, Z released.
C18_Nunchuk ==
    (call = "parse_nunchuk" /\ done /\ Len(data) = 6) =>
        /\ ret[1] # None
        /\ LET k == ret[1][1]
           IN /\ k.stick_x = data[1]
              /\ k.stick_y = data[2]
              /\ k.accel_x = data[3] * 4 + ((data[6] \div 4) % 4)
              /\ k.accel_y = data[4] * 4 + ((data[6] \div 16) % 4)
              /\ k.accel_z = data[5] * 4 + ((data[6] \div 64) % 4)
              /\ k.C = ((data[6] \div 2) % 2 = 0)
              /\ k.Z = (data[6] % 2 = 0)
              /\ (data = << 128, 144, 32, 48, 64, 217 >> =>
                     /\ k.accel_x = 130 /\ k.accel_y = 193 /\ k.accel_z = 259
                     /\ k.C /\ ~k.Z)

C18_TestBlock ==
    /\ call = "parse_nunchuk"
    /\ done
    /\ data = << 128, 144, 32, 48, 64, 217 >>
    /\ ret[1][1].C



\* C13: for every byte sequence, parse_report returns, and every field whose
\* bytes are not completely present in the frame is absent (None, or no IR
\* point) in the result: buttons need 2 payload bytes, the accelerometer 5,
\* the IR block 15, the extension block 6 bytes at its offset, the battery
\* its byte.
C13_AbsentWhenMissing ==
    (call = "parse_report" /\ done) =>
        LET r == ret[1]
            n == IF Len(data) >= 2 THEN Len(data) - 2 ELSE 0
            tag == IF Len(data) >= 2 THEN data[2] ELSE 0
            ext_end == (IF tag \in {54, 55} THEN 15 ELSE 5) + 6
        IN /\ (n < 2 => r.buttons = None)
           /\ (n < 5 => r.accel = None)
           /\ (n < 15 => r.ir_points = << >>)
           /\ (n < ext_end => r.motionplus = None /\ r.nunchuk = None)
           /\ (Len(data) < 7 => r.battery = None)

\* C12: a data report that carries an accelerometer block (tags 0x31 to
\* 0x37) but has fewer than 2 button bytes plus 3 accelerometer bytes after
\* its tag is a dropped sample for read_state: no field of the snapshot
\* differs from the snapshot before the frame.
C12_ShortFrameDropped ==
    (call = "read_state" /\ done /\ data # << >>) =>
        LET norm == _normalize_report(data)
        IN (/\ norm[1] # None
            /\ norm[1][1] \in ReportTags \ {32, 48}
            /\ Len(data) - norm[2] < 5)
               => [wstate EXCEPT !.accel_filters = prior.accel_filters,
                                 !.gyro_filters = prior.gyro_filters] = prior

\* C19: a status report (tag 0x20) carrying 0x80 in the battery byte, the
\* byte at index 6 of the frame a1 20 BB BB LF 00 VV as in the protocol
\* test, yields battery percentage 50 in the result of parse_report and in
\* the battery_level read_state writes to the snapshot; a battery
\* percentage either of them produces lies within 0..100.
C19_Battery50 ==
    LET status == Len(data) >= 7 /\ data[1] = 161 /\ data[2] = 32
    IN /\ (call = "parse_report" /\ done /\ status) =>
              /\ (At(data, 6) = 128 => ret[1].battery = Some(50))
              /\ (ret[1].battery # None =>
                      ret[1].battery[1] >= 0 /\ ret[1].battery[1] <= 100)
       /\ (call = "read_state" /\ done /\ status) =>
              /\ (At(data, 6) = 128 => wstate.battery_level = 50)
              /\ wstate.battery_level >= 0 /\ wstate.battery_level <= 100

\* C20: for every tag of the layout table, parse_report and read_state take
\* each block from the offset the table implies: buttons from payload bytes
\* 0-1, the accelerometer from bytes 2-4, the IR block of tags 0x33, 0x36
\* and 0x37 from bytes 5-14, and the extension block from offset 5 for tags
\* 0x32 and 0x35 and from offset 15 for tags 0x36 and 0x37, which is also
\* the offset the driver computes for itself.
C20_LayoutOffsets ==
    (call \in {"parse_report", "read_state"} /\ done /\ Len(data) >= 2
       /\ data[1] = 161 /\ data[2] \in ReportTags \ {32}) =>
        LET tag == data[2]
            payload == From(data, 2)
            n == Len(payload)
            ext_off == IF tag \in {54, 55} THEN 15 ELSE 5
            buttons == parse_buttons(Slice(payload, 0, 2))
            accel == parse_accelerometer(Slice(payload, 0, 5), 2)
            ir == parse_ir(payload, 5)
            ext_block == Slice(payload, ext_off, ext_off + 6)
        IN /\ call = "parse_report" =>
                /\ (n >= 2 => ret[1].buttons = Some(buttons))
                /\ (n >= 5 /\ tag # 48 => ret[1].accel = accel)
                /\ (n >= 15 /\ tag \in {51, 54, 55} => ret[1].ir_points = ir)
                /\ (n >= ext_off + 6 /\ tag \in {50, 53, 54, 55}
                      /\ extension = "motionplus"
                        => ret[1].motionplus = parse_motionplus(ext_block, 0))
                /\ (n >= ext_off + 6 /\ tag \in {50, 53, 54, 55}
                      /\ extension = "nunchuk"
                        => ret[1].nunchuk = parse_nunchuk(ext_block, 0))
           /\ call = "read_state" =>
                /\ (n >= 2 => wstate.buttons = _button_state_to_mask(buttons))
                /\ (n >= 5 /\ tag # 48 /\ prior = WiimoteState
                        => wstate.accel = << accel[1].x, accel[1].y, accel[1].z >>)
                /\ (n >= 15 /\ tag \in {51, 54, 55} =>
                        /\ wstate.ir_visible = (ir # << >>)
                        /\ (ir # << >> => wstate.ir_x = ir[1].x /\ wstate.ir_y = ir[1].y))
                /\ (tag \in {50, 53, 54, 55} =>
                        driver_extension_offset(From(data, 1), tag) - 1 = ext_off)
                /\ (n >= ext_off + 6 /\ tag \in {50, 53, 54, 55}
                      /\ extension = "motionplus" =>
                        wstate.gyro_raw = << Some(gyro_axes(ext_block)[1]),
                                             Some(gyro_axes(ext_block)[2]),
                                             Some(gyro_axes(ext_block)[3]) >>)
                /\ (n >= ext_off + 6 /\ tag \in {50, 53, 54, 55}
                      /\ extension = "nunchuk" =>
                        wstate.nunchuk_stick = << Some(At(ext_block, 0)),
                                                  Some(At(ext_block, 1)) >>)

\* C21: when the driver looks for MotionPlus data (extension_type is
\* "motionplus", or unset in a gyro mode) and no 6-byte window of the
\* frame's extension block scores 2 or more, read_state leaves the raw and
\* the filtered gyro values of the snapshot as they were and does not
\* count the gyro as available (motionplus_connected is not set True).
C21_NoWindowNoGyro ==
    (call = "read_state" /\ done /\ Len(data) > 2 /\ data[1] = 161
       /\ data[2] \in {50, 53, 54, 55} /\ seeks_motionplus(extension, mode)) =>
        LET block == extension_block(From(data, 1), data[2])
        IN (block # None
              /\ best_window(block[1], Max(0, Len(block[1]) - 6)) = None)
               => /\ wstate.gyro_raw = prior.gyro_raw
                  /\ wstate.gyro = prior.gyro
                  /\ wstate.gyro_filters = prior.gyro_filters
                  /\ wstate.motionplus_connected # Some(TRUE)

\* C30: when the scored search over the 6-byte windows of the extension
\* block accepts a window (highest score, earliest on ties, score >= 2),
\* the raw gyro values read_state stores in the snapshot are the ones
\* decoded from that window, wherever in the block it starts.
C30_AcceptedWindowStored ==
    (call = "read_state" /\ done /\ Len(data) > 2 /\ data[1] = 161
       /\ data[2] \in {50, 53, 54, 55} /\ seeks_motionplus(extension, mode)) =>
        LET block == extension_block(From(data, 1), data[2])
            accepted == best_window(block[1], Max(0, Len(block[1]) - 6))
        IN (block # None /\ accepted # None)
               => wstate.gyro_raw = << Some(gyro_axes(accepted[1])[1]),
                                       Some(gyro_axes(accepted[1])[2]),
                                       Some(gyro_axes(accepted[1])[3]) >>


\* ------------------------------------------------------------- calibration
MaxSamples == 2     \* largest [Calibration] samples setting

\* The [Calibration] settings calibrate() reads: the defaults' targets, and
\* targets a raw sample can sit a common distance above.
CalSettings ==
    { [samples |-> n, gyro_target |-> t[1], accel_target |-> t[2]] :
          n \in 0..MaxSamples, t \in { << 8000, 512 >>, << 100, 90 >> } }

\* What self.device.read(32, 50) hands to _read_raw_state: << frame >> (the
\* frame empty on a timeout), or None for an exception.
CalFrames ==
    { << 49, 0, 0, 100, 100, 100, 110, 110, 110 >>,
      << 161, 49, 0, 8, 100, 100, 100, 110, 110, 110 >>,
      << 49, 0, 8, 128, 129, 130, 16, 32, 48, 252, 0 >>,
      << 161, 49, 0, 0, 100, 100, 100, 110, 110 >>,
      << >> }
CalReads == { Some(f) : f \in CalFrames } \cup { None }

\* WiimoteDriver._read_raw_state from the frame read to its return: None, or
\* << accel, gyro >>.  An index past the end of the frame raises inside the
\* try block and comes back as None.
_read_raw_state(read) ==
    IF read = None THEN None
    ELSE IF Len(read[1]) <= 8 THEN None
    ELSE LET frame == read[1]
             raw_payload == IF At(frame, 0) = 161 THEN From(frame, 1) ELSE frame
             report_id == _normalize_report(frame)[1]
             has_report_id == report_id # None /\ At(raw_payload, 0) = report_id[1]
             buttons_offset == IF has_report_id THEN 1 ELSE 0
             accel_offset == buttons_offset + 2
             gyro_offset == buttons_offset + 5
             gyro_extra_index == buttons_offset + 8
         IN IF Len(raw_payload) <= accel_offset + 2 THEN None
            ELSE IF Len(raw_payload) <= gyro_offset + 2 THEN None
            ELSE Some(<< << At(raw_payload, accel_offset),
                            At(raw_payload, accel_offset + 1),
                            At(raw_payload, accel_offset + 2) >>,
                         << IF Len(raw_payload) > gyro_extra_index
                            THEN BitOr(At(raw_payload, gyro_offset),
                                       Shl(BitAnd(At(raw_payload, gyro_extra_index), 252), 6))
                            ELSE At(raw_payload, gyro_offset),
                            IF Len(raw_payload) > gyro_extra_index
                            THEN BitOr(At(raw_payload, gyro_offset + 1),
                                       Shl(BitAnd(At(raw_payload, gyro_extra_index), 3), 8))
                            ELSE At(raw_payload, gyro_offset + 1),
                            At(raw_payload, gyro_offset + 2) >> >>)

\* sum(v[axis] for v in samples)
RECURSIVE axis_sum(_, _)
axis_sum(samples_, axis) ==
    IF samples_ = << >> THEN 0
    ELSE Head(samples_)[axis] + axis_sum(Tail(samples_), axis)

\* The offset taken the other way round, target - avg.
calibration_offset_from_target(samples_, axis, target) ==
    << target * Len(samples_) - axis_sum(samples_, axis), Len(samples_) >>

\* avg - target for one axis, avg being sum / len: the value
\* (sum - target * len) / len as << n, d >>.  The driver computes it in
\* floating point; the two agree whenever sum / len is an integer.
calibration_offset(samples_, axis, target) ==
    << axis_sum(samples_, axis) - target * Len(samples_), Len(samples_) >>

\* A loop that only stops on a full set of samples.
calibrate_until_full(collected, samples_, attempts) ==
    collected < samples_

\* The condition of calibrate()'s while loop
calibrate_continues(collected, samples_, attempts) ==
    collected < samples_ /\ attempts < samples_ * 3

\* calibrate(): the check for a device.
CalStart ==
    /\ call = "calibrate"
    /\ ~done
    /\ cal.pc = "start"
    /\ IF device = 0
       THEN /\ done' = TRUE
            /\ ret' = Some(FALSE)
            /\ cal' = [cal EXCEPT !.pc = "done"]
       ELSE /\ cal' = [cal EXCEPT !.pc = "loop"]
            /\ UNCHANGED << done, ret >>
    /\ UNCHANGED << call, data, offset, extension, mode, wstate, prior, offsets,
                    args, mouse, link, drv, lifeVars >>

\* calibrate(): one pass of the while loop, the device answering read.
CalRead ==
    /\ call = "calibrate"
    /\ cal.pc = "loop"
    /\ calibrate_continues(Len(cal.gyro_samples), cal.samples, cal.attempts)
    /\ \E read \in CalReads :
          LET raw == _read_raw_state(read)
          IN /\ data' = IF read = None THEN << >> ELSE read[1]
             /\ cal' = [cal EXCEPT
                          !.attempts = @ + 1,
                          !.reads = @ + 1,
                          !.accel_samples = IF raw = None THEN @
                                            ELSE Append(@, raw[1][1]),
                          !.gyro_samples = IF raw = None THEN @
                                           ELSE Append(@, raw[1][2])]
    /\ UNCHANGED << call, offset, extension, mode, done, ret, wstate, prior,
                    offsets, args, mouse, link, drv, lifeVars >>

\* calibrate() from the end of the loop to its return.
CalFinish ==
    /\ call = "calibrate"
    /\ cal.pc = "loop"
    /\ ~calibrate_continues(Len(cal.gyro_samples), cal.samples, cal.attempts)
    /\ cal' = [cal EXCEPT !.pc = "done"]
    /\ done' = TRUE
    /\ IF cal.gyro_samples = << >> \/ cal.accel_samples = << >>
       THEN /\ ret' = Some(FALSE)
            /\ UNCHANGED << offsets, wstate >>
       ELSE /\ ret' = Some(TRUE)
            /\ offsets' =
                 [ gyro |-> [a \in 1..3 |->
                       calibration_offset(cal.gyro_samples, a, cal.gyro_target)],
                   accel |-> [a \in 1..3 |->
                       calibration_offset(cal.accel_samples, a, cal.accel_target)] ]
            /\ wstate' = [wstate EXCEPT !.gyro_filters = << None, None, None >>,
                                        !.accel_filters = << None, None, None >>]
    /\ UNCHANGED << call, data, offset, extension, mode, prior, args, mouse, link, drv, lifeVars >>

\* Offsets left by an earlier calibration.
EarlierOffsets == [ gyro |-> << << -5, 1 >>, << 3, 2 >>, << 0, 1 >> >>,
                    accel |-> << << 7, 1 >>, << -1, 3 >>, << 2, 1 >> >> ]

\* A driver, connected or not, fresh or used, on which calibrate() is called.
InitCalibrate ==
    /\ InitThreads
    /\ \/ device = 0 /\ open = {} /\ good = {}
       \/ device = 1 /\ open = {1} /\ good = {1}
    /\ cfg \in {c \in Configs : c.enabled}
    /\ script = << >>
    /\ devPresent = TRUE
    /\ frameSeq = 0
    /\ call = "calibrate"
    /\ data = << >>
    /\ offset = 0
    /\ extension = "motionplus"
    /\ mode = "MotionPlus"
    /\ done = FALSE
    /\ ret = None
    /\ wstate \in { WiimoteState, SeenState("motionplus", "MotionPlus") }
    /\ prior = wstate
    /\ offsets \in { NoOffsets, EarlierOffsets }
    /\ args = None
    /\ mouse = NoMouse
    /\ link = NoLink
    /\ drv = NoDrv
    /\ \E s \in CalSettings :
          cal = [ pc |-> "start", samples |-> s.samples,
                  gyro_target |-> s.gyro_target, accel_target |-> s.accel_target,
                  attempts |-> 0, reads |-> 0, gyro_samples |-> << >>,
                  accel_samples |-> << >>, before |-> offsets ]

NextCalibrate == CalStart \/ CalRead \/ CalFinish

SpecCalibrate == InitCalibrate /\ [][NextCalibrate]_vars

\* Every collected sample sits K above the targets on every axis.
AllSamplesAt(K) ==
    /\ \A i \in 1..Len(cal.gyro_samples) :
          \A a \in 1..3 : cal.gyro_samples[i][a] = cal.gyro_target + K
    /\ \A i \in 1..Len(cal.accel_samples) :
          \A a \in 1..3 : cal.accel_samples[i][a] = cal.accel_target + K

\* C22: when every raw sample calibrate() collected equals target + K on every
\* axis (gyro_target + K for the gyro, accel_target + K for the accelerometer)
\* and at least one sample was collected, calibrate() returns True and every
\* gyro and accelerometer offset it computed is exactly K.
C22_IdenticalSamplesOffsetK ==
    (call = "calibrate" /\ cal.pc = "done" /\ device # 0) =>
        \A K \in -512..255 :
            (AllSamplesAt(K) /\ Len(cal.gyro_samples) >= 1)
                => /\ ret = Some(TRUE)
                   /\ \A a \in 1..3 :
                         /\ offsets.gyro[a][1] = K * offsets.gyro[a][2]
                         /\ offsets.accel[a][1] = K * offsets.accel[a][2]
                         /\ offsets.gyro[a][2] > 0
                         /\ offsets.accel[a][2] > 0

\* calibrate() returned True from two identical samples ten above the targets.
C22_TwoSamplesTenAbove ==
    /\ call = "calibrate"
    /\ cal.pc = "done"
    /\ ret = Some(TRUE)
    /\ Len(cal.gyro_samples) = 2
    /\ AllSamplesAt(10)
    /\ offsets.gyro = << << 20, 2 >>, << 20, 2 >>, << 20, 2 >> >>

\* C23: calibrate() reads the transport at most 3 * samples times and then
\* returns; when no read gave a usable (accel, gyro) pair, or no transport is
\* open, it returns False and the calibration offsets and the smoothing
\* filters are what they were before the call.
C23_BoundedReadsFailureKeepsState ==
    call = "calibrate" =>
        /\ cal.reads <= 3 * cal.samples
        /\ (cal.pc = "done" /\ (device = 0 \/ cal.gyro_samples = << >>))
              => /\ ret = Some(FALSE)
                 /\ offsets = cal.before
                 /\ wstate = prior

\* calibrate() gave up after 3 * samples reads that gave nothing, on a driver
\* holding earlier offsets and warm filters.
C23_GaveUpAfterAllAttempts ==
    /\ call = "calibrate"
    /\ cal.pc = "done"
    /\ device # 0
    /\ cal.samples = MaxSamples
    /\ cal.reads = 3 * cal.samples
    /\ cal.gyro_samples = << >>
    /\ ret = Some(FALSE)
    /\ offsets = EarlierOffsets
    /\ wstate.gyro_filters # << None, None, None >>


\* ----------------------------------------------------------- mode selection
\* The values driver_state.mode takes: the modes the GUI offers, "Gyro" (an
\* older name of "MotionPlus") and a name the driver does not know.
DesiredModes == {"MotionPlus", "Gyro", "Hybrid", "IR", "Accel", "Off"}

\* A selection that answers "IR" where the auto-mode table has "Hybrid".
_select_effective_mode_ir_only(auto_mode_enabled, desired_mode, fallback_ir, has_gyro, has_accel, has_ir) ==
    IF has_gyro THEN "MotionPlus"
    ELSE IF has_ir THEN "IR"
    ELSE "Accel"

\* WiimoteDriver._select_effective_mode; auto_mode_enabled and fallback_ir are
\* the settings [General] auto_mode_enabled and [Fallback] enable_ir,
\* desired_mode is self.driver_state.mode.
_select_effective_mode(auto_mode_enabled, desired_mode, fallback_ir, has_gyro, has_accel, has_ir) ==
    IF ~auto_mode_enabled
    THEN IF desired_mode \in {"MotionPlus", "Gyro"}
         THEN IF has_gyro THEN "MotionPlus"
              ELSE IF fallback_ir /\ has_ir THEN "IR"
              ELSE IF has_accel THEN "Accel" ELSE "MotionPlus"
         ELSE IF desired_mode = "Hybrid"
         THEN IF has_ir THEN "Hybrid"
              ELSE IF has_gyro THEN "MotionPlus"
              ELSE IF fallback_ir /\ has_ir THEN "IR"
              ELSE IF has_accel THEN "Accel" ELSE "Hybrid"
         ELSE IF desired_mode = "IR"
         THEN IF has_ir THEN "IR"
              ELSE IF has_gyro THEN "MotionPlus"
              ELSE IF has_accel THEN "Accel" ELSE "IR"
         ELSE desired_mode
    ELSE IF has_gyro /\ has_ir THEN "MotionPlus"
    ELSE IF has_gyro THEN "MotionPlus"
    ELSE IF has_ir THEN "Hybrid"
    ELSE "Accel"

\* Every setting, desired mode and sensor availability.
ModeCalls ==
    [ auto_mode_enabled : BOOLEAN, desired_mode : DesiredModes,
      fallback_ir : BOOLEAN, has_gyro : BOOLEAN, has_accel : BOOLEAN,
      has_ir : BOOLEAN ]

SelectEffectiveMode ==
    /\ call = "_select_effective_mode"
    /\ ~done
    /\ done' = TRUE
    /\ ret' = Some(_select_effective_mode(args.auto_mode_enabled, args.desired_mode,
                                          args.fallback_ir, args.has_gyro,
                                          args.has_accel, args.has_ir))
    /\ UNCHANGED << call, data, offset, extension, mode, wstate, prior, cal,
                    offsets, args, mouse, link, drv, lifeVars >>

InitMode ==
    /\ InitDriver
    /\ cfg \in {c \in Configs : c.enabled}
    /\ script = << >>
    /\ devPresent = TRUE
    /\ frameSeq = 0
    /\ call = "_select_effective_mode"
    /\ data = << >>
    /\ offset = 0
    /\ extension = "none"
    /\ args \in ModeCalls
    /\ mouse = NoMouse
    /\ link = NoLink
    /\ drv = NoDrv
    /\ mode = args.desired_mode
    /\ done = FALSE
    /\ ret = None
    /\ wstate = WiimoteState
    /\ prior = wstate
    /\ cal = CalIdle
    /\ offsets = NoOffsets

NextMode == SelectEffectiveMode

SpecMode == InitMode /\ [][NextMode]_vars

\* C24: with auto-mode enabled the effective mode is "MotionPlus" (Fusion) when
\* the gyro is available, with or without IR, "Hybrid" when only IR is, and
\* "Accel" when neither is, whatever the desired mode.
C24_AutoModeTable ==
    (call = "_select_effective_mode" /\ done /\ args.auto_mode_enabled) =>
        ret = Some(IF args.has_gyro THEN "MotionPlus"
                   ELSE IF args.has_ir THEN "Hybrid"
                   ELSE "Accel")

\* Auto-mode chose Hybrid for a driver whose desired mode is MotionPlus.
C24_HybridOverDesired ==
    /\ call = "_select_effective_mode"
    /\ done
    /\ args.auto_mode_enabled
    /\ args.desired_mode = "MotionPlus"
    /\ ~args.has_gyro
    /\ args.has_ir
    /\ ret = Some("Hybrid")

\* The sensor a desired mode needs is available.
ModeSensorAvailable(m, a) ==
    IF m \in {"MotionPlus", "Gyro"} THEN a.has_gyro
    ELSE IF m \in {"Hybrid", "IR"} THEN a.has_ir
    ELSE a.has_accel

\* C25: with auto-mode disabled the effective mode is the desired mode when
\* that mode's sensor is available, and otherwise the first available of gyro
\* ("MotionPlus"), IR, raw accelerometer ("Accel").
C25_DesiredModeOrPrecedence ==
    (call = "_select_effective_mode" /\ done /\ ~args.auto_mode_enabled
       /\ args.desired_mode \in {"MotionPlus", "Hybrid", "IR", "Accel"}
       /\ (args.has_gyro \/ args.has_ir \/ args.has_accel)) =>
        ret = Some(IF ModeSensorAvailable(args.desired_mode, args)
                   THEN args.desired_mode
                   ELSE IF args.has_gyro THEN "MotionPlus"
                   ELSE IF args.has_ir THEN "IR"
                   ELSE "Accel")


\* ---------------------------------------------------------- mouse controller
MaxTicks == 3       \* process_state calls after the controller is built

\* Exact fractions << n, d >> with d > 0, in lowest terms.
RECURSIVE Gcd(_, _)
Gcd(a, b) == IF b = 0 THEN a ELSE Gcd(b, a % b)
Abs(a) == IF a < 0 THEN -a ELSE a
Rat(n, d) ==
    Only({ IF d < 0 THEN << (-n) \div g, (-d) \div g >> ELSE << n \div g, d \div g >> :
             g \in { Gcd(Abs(n), Abs(d)) } })
RatAdd(p, q) ==
    Only({ Rat(p[1] * (l \div p[2]) + q[1] * (l \div q[2]), l) :
             l \in { (p[2] \div Gcd(p[2], q[2])) * q[2] } })
RatNeg(p) == << -p[1], p[2] >>
RatSub(p, q) == RatAdd(p, RatNeg(q))
RatMul(p, q) ==
    Only({ << (p[1] \div g[1]) * (q[1] \div g[2]), (p[2] \div g[2]) * (q[2] \div g[1]) >> :
             g \in { << Gcd(Abs(p[1]), q[2]), Gcd(Abs(q[1]), p[2]) >> } })
\* abs(p) < q, q being positive
RatAbsLess(p, q) == Abs(p[1]) * q[2] < q[1] * p[2]
RatAbs(p) == << Abs(p[1]), p[2] >>
RatSign(p) == IF p[1] > 0 THEN 1 ELSE IF p[1] < 0 THEN -1 ELSE 0
\* abs(p) > q
RatAbsGreater(p, q) == Abs(p[1]) * q[2] > q[1] * p[2]
\* Python's int(): towards zero
RatInt(p) == IF p[1] >= 0 THEN p[1] \div p[2] ELSE -((-p[1]) \div p[2])

\* [Sensitivity] smoothing; 0 makes the movement filters pass every sample
\* through (alpha = 1 / (smoothing + 1) = 1).  The other settings keep their
\* defaults: mouse_speed 50, gyro_sensitivity 30, accel_sensitivity 25.
Smoothing == 0

\* math.atan2(opposite, math.sqrt(a**2 + b**2)) in milliradians, to the
\* nearest, for the tilts the model holds the controller at.
tilt_angle(opposite, a, b) ==
    IF opposite = 0 THEN << 0, 1 >>
    ELSE IF << opposite, a, b >> = << 100, 0, 100 >> THEN << 785, 1 >>
    ELSE IF << opposite, a, b >> = << 100, 50, 100 >> THEN << 730, 1 >>
    ELSE << -340, 1 >>

\* The accelerometer's pitch and roll for a snapshot
accel_pitch(st) == tilt_angle(st.accel[2] - 512, st.accel[1] - 512, st.accel[3] - 512)
accel_roll(st) == tilt_angle(-(st.accel[1] - 512), st.accel[2] - 512, st.accel[3] - 512)

\* A reset that forgets the time of the last tick and keeps the angles.
reset_motion_state_keeps_angles(m) == [m EXCEPT !._last_time = None]

\* MouseController.reset_motion_state; the baseline of the raw accelerometer
\* mode is not modelled.
reset_motion_state(m) ==
    [m EXCEPT !._pitch = << 0, 1 >>, !._roll = << 0, 1 >>,
              !._prev_pitch = << 0, 1 >>, !._prev_roll = << 0, 1 >>,
              !._last_time = None]

\* MouseController.toggle_control
toggle_control(m) ==
    IF m.enabled THEN [reset_motion_state(m) EXCEPT !.enabled = FALSE]
    ELSE [m EXCEPT !.enabled = TRUE]

\* The gyro's angle change over dt_ms, in milliradians: the rate
\* (gyro - 8000) * 0.00014 rad/s, zero inside the rate deadzone
\* 0.002 + smoothing * 0.0008, times dt.
gyro_delta(gyro, dt_ms) ==
    IF Abs(gyro - 8000) * 14 < 200 + 80 * Smoothing THEN << 0, 1 >>
    ELSE Rat((gyro - 8000) * 14 * dt_ms, 100000)

\* dt after "if dt > 0.1 or dt <= 0: dt = 0.01", in milliseconds
fusion_dt(m) ==
    IF m.now - m._last_time[1] > 100 \/ m.now - m._last_time[1] <= 0 THEN 10
    ELSE m.now - m._last_time[1]

\* A filter that weighs the gyro's angle 0.7 and the accelerometer's 0.3.
complementary_gyro_heavy(angle, gyro_angle_delta, accel_angle) ==
    RatAdd(RatMul(<< 7, 10 >>, RatAdd(angle, gyro_angle_delta)),
           RatMul(<< 3, 10 >>, accel_angle))

\* alpha * (angle + gyro delta) + (1 - alpha) * accel angle, alpha = 0.3
complementary(angle, gyro_angle_delta, accel_angle) ==
    RatAdd(RatMul(<< 3, 10 >>, RatAdd(angle, gyro_angle_delta)),
           RatMul(<< 7, 10 >>, accel_angle))

\* An angle change inside the deadzone 0.0005 + smoothing * 0.0006 rad is 0.
delta_deadzone(delta) ==
    IF RatAbsLess(delta, << 5 + 6 * Smoothing, 10 >>) THEN << 0, 1 >> ELSE delta

\* Pixels per milliradian: combined_sensitivity * speed_multiplier * 50000
\* = (0.25 * 0.6 + 0.30 * 0.4) * 5.0 * 50000 per radian.
fusion_scale == << 135, 2 >>

\* LowPassFilter.apply for the movement filters, alpha = 1 / (smoothing + 1)
movement_filter(f, value) ==
    IF f = None THEN value
    ELSE RatAdd(RatMul(<< 1, Smoothing + 1 >>, value),
                RatMul(<< Smoothing, Smoothing + 1 >>, f[1]))

\* pyautogui.moveRel(int(move_x), int(move_y)) when either exceeds half a
\* pixel: << dx, dy >>, or None when nothing is emitted.
emitted(move_x, move_y) ==
    IF RatAbsGreater(move_x, << 1, 2 >>) \/ RatAbsGreater(move_y, << 1, 2 >>)
    THEN Some(<< RatInt(move_x), RatInt(move_y) >>)
    ELSE None

\* _process_accel_gyro_fusion on its first tick: the angles come from the
\* accelerometer and the tick returns.
fusion_first(m, st) ==
    [m EXCEPT !._last_time = Some(m.now),
              !._pitch = accel_pitch(st), !._roll = accel_roll(st),
              !._prev_pitch = accel_pitch(st), !._prev_roll = accel_roll(st),
              !.branch = "first", !.moved = None]

\* _process_accel_gyro_fusion on a later tick, pitch and roll being the new
\* blended angles.
fusion_blend(m, st, pitch, roll) ==
    Only({ [m EXCEPT !._last_time = Some(m.now),
                     !._pitch = pitch, !._roll = roll,
                     !._prev_pitch = pitch, !._prev_roll = roll,
                     !._gyro_filter_x = Some(mv[1]), !._gyro_filter_y = Some(mv[2]),
                     !.branch = "blend", !.moved = emitted(mv[1], mv[2])] :
             mv \in { << movement_filter(m._gyro_filter_x,
                            RatMul(RatNeg(delta_deadzone(RatSub(roll, m._prev_roll))),
                                   fusion_scale)),
                         movement_filter(m._gyro_filter_y,
                            RatMul(delta_deadzone(RatSub(pitch, m._prev_pitch)),
                                   fusion_scale)) >> } })

\* MouseController._process_accel_gyro_fusion
_process_accel_gyro_fusion(m, st) ==
    IF m._last_time = None THEN fusion_first(m, st)
    ELSE fusion_blend(m, st,
             complementary(m._pitch, gyro_delta(st.gyro[2], fusion_dt(m)), accel_pitch(st)),
             complementary(m._roll, gyro_delta(st.gyro[1], fusion_dt(m)), accel_roll(st)))

\* MouseController.process_state after the button handling, for a controller
\* that is enabled.  The IR and raw accelerometer modes keep their own state,
\* which is not modelled, and leave the fusion state alone.
process_motion(m, st) ==
    IF st.effective_mode = "MotionPlus" THEN _process_accel_gyro_fusion(m, st)
    ELSE [m EXCEPT !.branch = "other", !.moved = None]

\* MouseController.center_cursor: pyautogui.moveTo to the middle of the screen
center_cursor(m) == [m EXCEPT !.moved_to = Some("centre")]

\* MouseController.handle_button_action under the default [ButtonMapping]:
\* One is toggle_control and Two is center_mouse; the actions of the other
\* buttons (clicks, scrolling, keys) leave the controller alone.
handle_button_action(m, button) ==
    [(IF button = "ONE" THEN toggle_control(m)
      ELSE IF button = "TWO" THEN center_cursor(m)
      ELSE m) EXCEPT !.dispatched = Append(@, button)]

\* MouseController._button_names_from_mask for the masks of Two, One, B, A
_button_names_from_mask(buttons) ==
    (IF BitAnd(buttons, 1) # 0 THEN << "TWO" >> ELSE << >>)
      \o (IF BitAnd(buttons, 2) # 0 THEN << "ONE" >> ELSE << >>)
      \o (IF BitAnd(buttons, 4) # 0 THEN << "B" >> ELSE << >>)
      \o (IF BitAnd(buttons, 8) # 0 THEN << "A" >> ELSE << >>)

\* state.buttons & ~self.prev_buttons
new_presses(buttons, prev_buttons) == buttons - BitAnd(buttons, prev_buttons)

\* for button in names: self.handle_button_action(button)
RECURSIVE dispatch_presses(_, _)
dispatch_presses(m, names) ==
    IF names = << >> THEN m
    ELSE dispatch_presses(handle_button_action(m, Head(names)), Tail(names))

\* MouseController.process_state; m holds the time of the call.  moved_to
\* and dispatched are what this call sent to pyautogui.moveTo and to
\* handle_button_action.
process_state(m, st) ==
    Only({ IF ~t.enabled
           THEN [reset_motion_state(t) EXCEPT !.branch = "disabled", !.moved = None,
                                              !.prev_mode = "none"]
           ELSE [process_motion(t, st) EXCEPT
                    !.prev_mode = st.effective_mode,
                    !.before_mode = IF m.enabled THEN m.prev_mode ELSE "none"] :
             t \in { [dispatch_presses(
                         [m EXCEPT !.moved_to = None, !.dispatched = << >>],
                         _button_names_from_mask(new_presses(st.buttons,
                                                             m.prev_buttons)))
                         EXCEPT !.prev_buttons = st.buttons] } })

\* The snapshots the controller is given: at rest or tilted, the gyro still,
\* inside the rate deadzone or turning, in each effective mode, the One
\* and the Two button up or down.
MouseSnapshots ==
    { [effective_mode |-> "MotionPlus", accel |-> a, gyro |-> g, buttons |-> 0] :
         a \in { << 512, 512, 612 >>, << 512, 612, 612 >>, << 562, 612, 612 >> },
         g \in { << 8000, 8000, 8000 >>, << 8010, 7990, 8000 >>,
                 << 13000, 3000, 8000 >> } }
      \cup { [effective_mode |-> em, accel |-> << 512, 512, 612 >>,
              gyro |-> << 8000, 8000, 8000 >>, buttons |-> b] :
                 em \in {"MotionPlus", "IR", "Accel"}, b \in {0, 1, 2} }

\* Milliseconds between two process_state calls
TickGaps == {10, 250}

\* MouseController(): control is off and no angle is held.
NewMouse ==
    [ enabled |-> FALSE, prev_buttons |-> 0,
      _pitch |-> << 0, 1 >>, _roll |-> << 0, 1 >>,
      _prev_pitch |-> << 0, 1 >>, _prev_roll |-> << 0, 1 >>,
      _last_time |-> None, _gyro_filter_x |-> None, _gyro_filter_y |-> None,
      now |-> 0, ticks |-> 0, state |-> None, branch |-> "none", moved |-> None,
      moved_to |-> None, dispatched |-> << >>, buttons_before |-> 0,
      prev_mode |-> "none", before_mode |-> "none", pitch_before |-> << 0, 1 >>,
      roll_before |-> << 0, 1 >> ]

\* The GUI or a hotkey calls toggle_control.
ToggleControl ==
    /\ call = "process_state"
    /\ mouse' = [toggle_control(mouse) EXCEPT !.prev_mode = "none",
                                               !.branch = "toggled", !.moved = None]
    /\ UNCHANGED << call, data, offset, extension, mode, done, ret, wstate, prior,
                    cal, offsets, args, link, drv,
                    lifeVars >>

\* The driver hands the controller a snapshot, gap ms after the last one.
ProcessState ==
    /\ call = "process_state"
    /\ mouse.ticks < MaxTicks
    /\ \E st \in MouseSnapshots, gap \in TickGaps :
          mouse' = [process_state([mouse EXCEPT !.now = @ + gap], st) EXCEPT
                       !.ticks = @ + 1, !.state = Some(st),
                       !.buttons_before = mouse.prev_buttons,
                       !.pitch_before = mouse._pitch, !.roll_before = mouse._roll]
    /\ UNCHANGED << call, data, offset, extension, mode, done, ret, wstate, prior,
                    cal, offsets, args, link, drv,
                    lifeVars >>

InitFusion ==
    /\ InitDriver
    /\ cfg \in {c \in Configs : c.enabled}
    /\ script = << >>
    /\ devPresent = TRUE
    /\ frameSeq = 0
    /\ call = "process_state"
    /\ data = << >>
    /\ offset = 0
    /\ extension = "motionplus"
    /\ mode = "MotionPlus"
    /\ done = FALSE
    /\ ret = None
    /\ wstate = WiimoteState
    /\ prior = wstate
    /\ cal = CalIdle
    /\ offsets = NoOffsets
    /\ args = None
    /\ mouse = NewMouse
    /\ link = NoLink
    /\ drv = NoDrv

NextFusion == ToggleControl \/ ProcessState

SpecFusion == InitFusion /\ [][NextFusion]_vars

\* C26: the first Fusion tick after control is activated, and the first
\* Fusion tick after the effective mode changed to Fusion from another mode,
\* sets pitch and roll to the accelerometer's angles and emits no pointer
\* movement.
C26_FirstFusionTickInitializes ==
    (call = "process_state" /\ mouse.branch \in {"first", "blend"}
       /\ mouse.before_mode # "MotionPlus") =>
        /\ mouse._pitch = accel_pitch(mouse.state[1])
        /\ mouse._roll = accel_roll(mouse.state[1])
        /\ mouse.moved = None

\* C27: on a Fusion tick that blends, with the accelerometer at a non-zero
\* tilt and both gyro rates inside the deadzone, the distance of pitch and of
\* roll to the accelerometer's angle is 0.3 times what it was before the
\* tick: it does not grow and does not change sign.
C27_FusionContracts ==
    (call = "process_state" /\ mouse.branch = "blend"
       /\ mouse.state[1].accel # << 512, 512, 612 >>
       /\ gyro_delta(mouse.state[1].gyro[1], 10) = << 0, 1 >>
       /\ gyro_delta(mouse.state[1].gyro[2], 10) = << 0, 1 >>) =>
        /\ RatSub(mouse._pitch, accel_pitch(mouse.state[1]))
             = RatMul(<< 3, 10 >>, RatSub(mouse.pitch_before, accel_pitch(mouse.state[1])))
        /\ RatSub(mouse._roll, accel_roll(mouse.state[1]))
             = RatMul(<< 3, 10 >>, RatSub(mouse.roll_before, accel_roll(mouse.state[1])))
        /\ RatSub(RatAbs(RatSub(mouse.pitch_before, accel_pitch(mouse.state[1]))),
                  RatAbs(RatSub(mouse._pitch, accel_pitch(mouse.state[1]))))[1] >= 0
        /\ RatSub(RatAbs(RatSub(mouse.roll_before, accel_roll(mouse.state[1]))),
                  RatAbs(RatSub(mouse._roll, accel_roll(mouse.state[1]))))[1] >= 0
        /\ RatSign(RatSub(mouse._pitch, accel_pitch(mouse.state[1])))
             = RatSign(RatSub(mouse.pitch_before, accel_pitch(mouse.state[1])))
        /\ RatSign(RatSub(mouse._roll, accel_roll(mouse.state[1])))
             = RatSign(RatSub(mouse.roll_before, accel_roll(mouse.state[1])))

\* Two blending ticks in a row at the tilt (50, 100, 100) with the gyro
\* still, after a start at rest: pitch is 730 - 730 * 0.09 milliradians.
C27_TwoTicksTowardsTilt ==
    /\ call = "process_state"
    /\ mouse.branch = "blend"
    /\ mouse.ticks = 3
    /\ mouse.state[1].accel = << 562, 612, 612 >>
    /\ mouse.state[1].gyro = << 8010, 7990, 8000 >>
    /\ mouse.pitch_before = << 511, 1 >>
    /\ mouse._pitch = << 6643, 10 >>
    /\ mouse._roll = << -1547, 5 >>


\* ---------------------------------------------------------------- discovery
MaxCandidates == 3  \* HID interfaces one enumeration lists

\* The interfaces hid.enumerate lists for a paired controller: the game pad
\* (usage page 0x0001, usage 0x0005), interface 0 with a vendor usage page,
\* a joystick collection on usage page 0x0001, and a vendor interface.
HidInterfaces ==
    { [path |-> "gamepad", interface_number |-> 1, usage_page |-> 1, usage |-> 5],
      [path |-> "if0", interface_number |-> 0, usage_page |-> 65280, usage |-> 1],
      [path |-> "page1", interface_number |-> 2, usage_page |-> 1, usage |-> 4],
      [path |-> "vendor", interface_number |-> 1, usage_page |-> 5, usage |-> 0] }

\* Enumerations of up to MaxCandidates interfaces, in any order.
Enumerations ==
    UNION { [1..n -> HidInterfaces] : n \in 0..MaxCandidates }

\* The loop over the candidates in find_wiimote and in find_and_connect: the
\* first candidate that is the game pad, or is interface 0, or is on usage
\* page 0x0001; None when the loop ends without one.
RECURSIVE first_preferred(_)
first_preferred(wiimote_devices) ==
    IF wiimote_devices = << >> THEN None
    ELSE IF Head(wiimote_devices).usage_page = 1 /\ Head(wiimote_devices).usage = 5
    THEN Some(Head(wiimote_devices))
    ELSE IF Head(wiimote_devices).interface_number = 0
              \/ Head(wiimote_devices).usage_page = 1
    THEN Some(Head(wiimote_devices))
    ELSE first_preferred(Tail(wiimote_devices))

\* WiimoteConnection.find_wiimote on an enumeration that stays the same until
\* the timeout: the candidate it returns, None when there is none.
find_wiimote(wiimote_devices) ==
    IF wiimote_devices = << >> THEN None
    ELSE IF first_preferred(wiimote_devices) # None THEN first_preferred(wiimote_devices)
    ELSE Some(wiimote_devices[1])

FindWiimote ==
    /\ call = "find_wiimote"
    /\ ~done
    /\ done' = TRUE
    /\ ret' = Some(find_wiimote(args))
    /\ UNCHANGED << call, data, offset, extension, mode, wstate, prior, cal,
                    offsets, args, mouse, link, drv, lifeVars >>

\* WiimoteDriver.find_and_connect picks its candidate the same way.
DriverFindCandidate ==
    /\ call = "find_and_connect"
    /\ ~done
    /\ done' = TRUE
    /\ ret' = Some(IF args = << >> THEN None
                   ELSE IF first_preferred(args) # None THEN first_preferred(args)
                   ELSE Some(args[1]))
    /\ UNCHANGED << call, data, offset, extension, mode, wstate, prior, cal,
                    offsets, args, mouse, link, drv, lifeVars >>

InitDiscover ==
    /\ InitDriver
    /\ cfg \in {c \in Configs : c.enabled}
    /\ script = << >>
    /\ devPresent = TRUE
    /\ frameSeq = 0
    /\ call \in {"find_wiimote", "find_and_connect"}
    /\ data = << >>
    /\ offset = 0
    /\ extension = "none"
    /\ mode = "MotionPlus"
    /\ done = FALSE
    /\ ret = None
    /\ wstate = WiimoteState
    /\ prior = wstate
    /\ cal = CalIdle
    /\ offsets = NoOffsets
    /\ args \in Enumerations
    /\ mouse = NoMouse
    /\ link = NoLink
    /\ drv = NoDrv

NextDiscover == FindWiimote \/ DriverFindCandidate

SpecDiscover == InitDiscover /\ [][NextDiscover]_vars

\* C28: discovery returns a candidate with usage page 0x0001 and usage 0x0005
\* whenever the enumeration lists one, wherever it is listed; failing that
\* one with interface number 0 or usage page 0x0001; failing that the first
\* candidate.
C28_GamepadPreferredAnywhere ==
    (call \in {"find_wiimote", "find_and_connect"} /\ done /\ args # << >>) =>
        LET listed == { args[i] : i \in 1..Len(args) }
            gamepads == { d \in listed : d.usage_page = 1 /\ d.usage = 5 }
            mains == { d \in listed : d.interface_number = 0 \/ d.usage_page = 1 }
        IN /\ ret[1] # None
           /\ IF gamepads # {} THEN ret[1][1] \in gamepads
              ELSE IF mains # {} THEN ret[1][1] \in mains
              ELSE ret[1][1] = args[1]


\* --------------------------------------------------------------- connection
MaxOps == 4         \* operations called on one WiimoteConnection

\* Frames the controller sends: the frame of the connection test, a short
\* frame and a full 23-byte frame.
LinkFrames ==
    { << 161, 49, 0, 0, 0 >>, << 49, 1, 2, 3 >>, << 161, 55 >> \o PayloadB }

\* What the controller has sent and the connection has not read yet.
PendingFrames == UNION { [1..n -> LinkFrames] : n \in 0..2 }

\* The device_info connect() is given: a candidate, a candidate whose path
\* is missing, or None with the enumeration find_wiimote will see.
GivenInfos ==
    { [given |-> TRUE, path |-> "gamepad", listed |-> << >>],
      [given |-> TRUE, path |-> "", listed |-> << >>],
      [given |-> FALSE, path |-> "", listed |-> << >>],
      [given |-> FALSE, path |-> "",
       listed |-> << [path |-> "vendor", interface_number |-> 1, usage_page |-> 5,
                      usage |-> 0],
                     [path |-> "gamepad", interface_number |-> 1, usage_page |-> 1,
                      usage |-> 5] >>] }

\* WiimoteConnection(): nothing is open; pending is the device's side.
NewLink(pending) ==
    [ connected |-> FALSE, device |-> None, opened |-> FALSE, rumble_state |-> FALSE,
      writes |-> << >>, pending |-> pending, ops |-> 0, op |-> "none",
      result |-> None, before |-> None, env |-> None ]

\* WiimoteConnection._cleanup
_cleanup(l) == [l EXCEPT !.device = None, !.opened = FALSE]

\* A verification that takes an open device for a responding one.
_verify_connection_open_only(l, read_raises) == l.opened

\* WiimoteConnection._verify_connection: whether a read within the 8 seconds
\* returns data.  A read that raises ends it with False.
_verify_connection(l, read_raises) == ~read_raises /\ l.pending # << >>

\* WiimoteConnection._initialize: the LED report, report mode 0x31, rumble on
\* and off, each through send_command.
_initialize(l) ==
    [l EXCEPT !.writes = @ \o << << 17, 16 + AsInt(l.rumble_state) >>,
                                 << 18, 4 + AsInt(l.rumble_state), 49 >>,
                                 << 17, 17 >>,
                                 << 17, 16 >> >>,
              !.rumble_state = FALSE]

\* WiimoteConnection.connect: << connection, value returned >>
connect(l, info, open_raises, read_raises) ==
    IF ~info.given /\ find_wiimote(info.listed) = None THEN << l, FALSE >>
    ELSE IF info.given /\ info.path = "" THEN << l, FALSE >>
    ELSE IF open_raises THEN << _cleanup([l EXCEPT !.device = Some("hid")]), FALSE >>
    ELSE IF ~_verify_connection([l EXCEPT !.device = Some("hid"), !.opened = TRUE],
                                read_raises)
    THEN << _cleanup([l EXCEPT !.device = Some("hid"), !.opened = TRUE]), FALSE >>
    ELSE << _initialize([l EXCEPT !.device = Some("hid"), !.opened = TRUE,
                                  !.connected = TRUE,
                                  !.pending = IF @ = << >> THEN @ ELSE Tail(@)]),
            TRUE >>

\* WiimoteConnection.read_data: << connection, value returned >>.  A read of
\* at most 23 bytes; a read that raises goes through _handle_disconnect.  The
\* reconnect thread it may start is not modelled.
read_data(l, read_raises) ==
    IF ~l.connected \/ l.device = None THEN << l, None >>
    ELSE IF read_raises THEN << [_cleanup(l) EXCEPT !.connected = FALSE], None >>
    ELSE IF l.pending = << >> THEN << l, None >>
    ELSE << [l EXCEPT !.pending = Tail(@)], Some(Slice(Head(l.pending), 0, 23)) >>

\* WiimoteConnection.disconnect
disconnect(l) ==
    IF ~l.connected THEN l
    ELSE [_cleanup(l) EXCEPT
            !.writes = @ \o << << 17, AsInt(l.rumble_state) >>, << 17, 16 >> >>,
            !.rumble_state = FALSE,
            !.connected = FALSE]

\* What an operation found: the frames pending, the number of reports written
\* so far, and the operation before it with its result.
LinkBefore ==
    [ pending |-> link.pending, written |-> Len(link.writes), op |-> link.op,
      result |-> link.result ]

\* connect() is called on a connection that is not connected: by main on a
\* new one, by _reconnect_loop after a loss, by a caller after disconnect().
Connect ==
    /\ call = "connect"
    /\ link.ops < MaxOps
    /\ ~link.connected
    /\ \E info \in GivenInfos, open_raises \in BOOLEAN, read_raises \in BOOLEAN :
          LET r == connect(link, info, open_raises, read_raises)
          IN link' = [r[1] EXCEPT !.ops = @ + 1, !.op = "connect",
                                  !.result = Some(r[2]), !.before = Some(LinkBefore),
                                  !.env = Some([info |-> info, open_raises |-> open_raises,
                                                read_raises |-> read_raises])]
    /\ UNCHANGED << call, data, offset, extension, mode, done, ret, wstate, prior,
                    cal, offsets, args, mouse, drv, lifeVars >>

ReadData ==
    /\ call = "connect"
    /\ link.ops < MaxOps
    /\ \E read_raises \in BOOLEAN :
          LET r == read_data(link, read_raises)
          IN link' = [r[1] EXCEPT !.ops = @ + 1, !.op = "read_data",
                                  !.result = Some(r[2]), !.before = Some(LinkBefore),
                                  !.env = Some([read_raises |-> read_raises])]
    /\ UNCHANGED << call, data, offset, extension, mode, done, ret, wstate, prior,
                    cal, offsets, args, mouse, drv, lifeVars >>

Disconnect ==
    /\ call = "connect"
    /\ link.ops < MaxOps
    /\ link' = [disconnect(link) EXCEPT !.ops = @ + 1, !.op = "disconnect",
                                        !.result = None, !.before = Some(LinkBefore),
                                        !.env = None]
    /\ UNCHANGED << call, data, offset, extension, mode, done, ret, wstate, prior,
                    cal, offsets, args, mouse, drv, lifeVars >>

InitConnect ==
    /\ InitDriver
    /\ cfg \in {c \in Configs : c.enabled}
    /\ script = << >>
    /\ devPresent = TRUE
    /\ frameSeq = 0
    /\ call = "connect"
    /\ data = << >>
    /\ offset = 0
    /\ extension = "none"
    /\ mode = "MotionPlus"
    /\ done = FALSE
    /\ ret = None
    /\ wstate = WiimoteState
    /\ prior = wstate
    /\ cal = CalIdle
    /\ offsets = NoOffsets
    /\ args = None
    /\ mouse = NoMouse
    /\ drv = NoDrv
    /\ \E p \in PendingFrames : link = NewLink(p)

NextConnect == Connect \/ ReadData \/ Disconnect

SpecConnect == InitConnect /\ [][NextConnect]_vars

\* connect() was called with a usable device_info (or found one).
LinkHasPath ==
    IF link.env[1].info.given THEN link.env[1].info.path # ""
    ELSE link.env[1].info.listed # << >>

\* The reports written since the call
LinkWritten == SubSeq(link.writes, link.before[1].written + 1, Len(link.writes))

\* C29: connect on a device that delivers a frame during verification returns
\* True with connected set, having written the LED report and the report-mode
\* report, and a read_data() right after it returns the device's next frame
\* byte for byte; when no frame arrives during verification, or opening
\* raises, connect returns False with connected unset and the transport
\* closed.
C29_ConnectVerifiesAndReads ==
    /\ (call = "connect" /\ link.op = "connect" /\ LinkHasPath) =>
          IF ~link.env[1].open_raises /\ ~link.env[1].read_raises
               /\ link.before[1].pending # << >>
          THEN /\ link.result = Some(TRUE)
               /\ link.connected
               /\ link.opened
               /\ \E i \in 1..Len(LinkWritten) : LinkWritten[i][1] = 17
               /\ \E i \in 1..Len(LinkWritten) : LinkWritten[i][1] = 18
          ELSE /\ link.result = Some(FALSE)
               /\ ~link.connected
               /\ ~link.opened
               /\ link.device = None
    /\ (call = "connect" /\ link.op = "read_data"
          /\ link.before[1].op = "connect" /\ link.before[1].result = Some(TRUE)
          /\ ~link.env[1].read_raises /\ link.before[1].pending # << >>) =>
          link.result = Some(Some(Head(link.before[1].pending)))

\* The connection test: two frames pending, connect succeeds on the first and
\* read_data returns the second.
C29_SecondFrameRead ==
    /\ call = "connect"
    /\ link.op = "read_data"
    /\ link.before[1].op = "connect"
    /\ link.before[1].result = Some(TRUE)
    /\ link.before[1].pending = << << 49, 1, 2, 3 >> >>
    /\ link.pending = << >>
    /\ link.result = Some(Some(<< 49, 1, 2, 3 >>))
    /\ link.writes = << << 17, 16 >>, << 18, 4, 49 >>, << 17, 17 >>, << 17, 16 >> >>


\* ------------------------------------------- WiimoteDriver on one thread
\* The driver as the thread that owns it sees it when no poll thread runs:
\* find_and_connect, read_state reading the device itself and disconnect.  drv holds the driver's fields, the transport
\* (is_open, writes accepted by the current handle, what it rejects and
\* what it will answer during the call in hand) and the clock in ms.
MaxCalls == 3

\* self._status_request_interval in ms (status_poll_interval, default 2.5)
StatusRequestInterval == 2500

\* [General] extension of the configuration, as _init_extension_settings
\* classifies it
ExtensionSettings == {"auto", "motionplus", "nunchuk", "none"}

_init_extension_settings(extension_) ==
    IF extension_ = "motionplus" THEN "motionplus"
    ELSE IF extension_ = "nunchuk" THEN "nunchuk"
    ELSE "none"

\* int.to_bytes(length, byteorder='big'); None is OverflowError
to_bytes(n, length) ==
    IF length < 4 /\ n >= 256 ^ length THEN None
    ELSE Some([ i \in 1..length |-> (n \div (256 ^ (length - i))) % 256 ])

\* time.sleep(ms / 1000)
sleep(d, ms) == [d EXCEPT !.now = @ + ms]

\* the except clause that swallows what the try block raised
caught(d) == [d EXCEPT !.raised = FALSE]

\* self.device.write(command): raises on a handle that is not open and on
\* a command the transport rejects
device_write(d, command) ==
    IF ~d.is_open \/ command[1] \in d.rejects THEN [d EXCEPT !.raised = TRUE]
    ELSE [d EXCEPT !.writes = Append(@, command),
                   !.issue_gap = IF command[1] = 18 /\ d.last_issue # None
                                   THEN Some(d.now - d.last_issue[1]) ELSE @,
                   !.last_issue = IF command[1] = 18 THEN Some(d.now) ELSE @]

_write_register(d, address, data_) ==
    caught(device_write(d, << 22 >> \o to_bytes(address, 4)[1] \o << Len(data_) >>
                             \o data_ \o [ i \in 1..(16 - Len(data_)) |-> 0 ]))

\* registers 0x04A400F0 and 0x04A400FB
_enable_nunchuk(d) ==
    sleep(_write_register(sleep(_write_register(d, 77857008, << 85 >>), 50),
                          77857019, << 0 >>), 50)

\* registers 0x04A600F0, 0x04A600FB and 0x04A600FE
_enable_motionplus(d) ==
    sleep(_write_register(
            sleep(_write_register(sleep(_write_register(d, 77988080, << 85 >>), 50),
                                  77988091, << 0 >>), 50),
            77988094, << 4 >>), 50)

\* The read loop of _read_memory over the frames the transport answers
\* before end_time: the data of the first usable 0x21 report, None on an
\* error byte or when the time is up.
RECURSIVE read_reply(_)
read_reply(replies) ==
    IF replies = << >> THEN [data |-> None, left |-> << >>]
    ELSE LET data_ == Head(replies)
             tagged == Len(data_) > 1 /\ At(data_, 0) = 161
             report_id == IF tagged THEN At(data_, 1) ELSE At(data_, 0)
             offset_ == IF tagged THEN 2 ELSE 1
         IN IF data_ = << >> THEN read_reply(Tail(replies))
            ELSE IF report_id # 33 THEN read_reply(Tail(replies))
            ELSE IF Len(data_) < offset_ + 6 THEN read_reply(Tail(replies))
            ELSE IF At(data_, offset_) # 0
              THEN [data |-> None, left |-> Tail(replies)]
            ELSE [data |-> Some(Slice(data_, offset_ + 5,
                                      offset_ + 5 + BitAnd(At(data_, offset_ + 4), 15) + 1)),
                  left |-> Tail(replies)]

\* d.mem is the value returned
_read_memory(d, address, size) ==
    IF d.device = 0 THEN [d EXCEPT !.mem = None]
    ELSE IF to_bytes(address, 3) = None \/ to_bytes(size, 2) = None
      THEN [d EXCEPT !.mem = None]
    ELSE IF device_write(d, << 23 >> \o to_bytes(address, 3)[1]
                              \o to_bytes(size, 2)[1]).raised
      THEN [d EXCEPT !.mem = None]
    ELSE [device_write(d, << 23 >> \o to_bytes(address, 3)[1] \o to_bytes(size, 2)[1])
            EXCEPT !.mem = read_reply(d.replies).data,
                   !.replies = read_reply(d.replies).left]

_read_extension_id(d, address) ==
    [_read_memory(d, address, 6) EXCEPT
        !.mem = IF @ = None THEN None
                ELSE IF Len(@[1]) < 6 THEN None
                ELSE Some(SubSeq(@[1], 1, 6))]

startswith(b, prefix) ==
    Len(b) >= Len(prefix) /\ SubSeq(b, 1, Len(prefix)) = prefix

\* the second half of _detect_extension; d.detected is the value returned
detect_motionplus(d) ==
    [d EXCEPT !.detected =
        IF d.mem # None
             /\ (d.mem[1] \in {<< 0, 0, 164, 32, 4, 5 >>, << 0, 0, 164, 32, 5, 5 >>}
                   \/ startswith(d.mem[1], << 0, 0, 164, 32 >>))
          THEN "motionplus" ELSE "none"]

\* registers 0x04A400FE and 0x04A600FE
_detect_extension(d) ==
    Only({ IF a.mem # None
                /\ (a.mem[1] = << 0, 0, 164, 32, 0, 0 >>
                      \/ startswith(a.mem[1], << 0, 0, 164, 32 >>))
             THEN [a EXCEPT !.detected = "nunchuk"]
             ELSE detect_motionplus(_read_extension_id(_enable_motionplus(a), 77988094))
           : a \in { _read_extension_id(_enable_nunchuk(d), 77857022) } })

\* what _check_motionplus_active returns for the two identities it read
motionplus_probe(ext_id, mp_id) ==
    IF {ext_id, mp_id} \cap { Some(<< 0, 0, 164, 32, 4, 5 >>), Some(<< 0, 0, 164, 32, 5, 5 >>),
                              Some(<< 0, 0, 164, 32, 7, 5 >>) } # {}
      THEN "active"
    ELSE IF {ext_id, mp_id} \cap { Some(<< 0, 0, 164, 32, 0, 5 >>),
                                   Some(<< 0, 0, 166, 32, 0, 5 >>) } # {}
      THEN "inactive"
    ELSE "unknown"

\* d.probe is the value returned ("unknown" is None)
_check_motionplus_active(d) ==
    IF d.device = 0 THEN [d EXCEPT !.probe = "unknown"]
    ELSE Only({ Only({ [b EXCEPT !.probe = motionplus_probe(a.mem, b.mem)]
                       : b \in { _read_extension_id(a, 77988094) } })
                : a \in { _read_extension_id(d, 77857022) } })

\* has_extension of _apply_report_mode
has_extension(mode_, extension_type) ==
    extension_type \in {"motionplus", "nunchuk"}
      \/ (mode_ \in {"MotionPlus", "Gyro", "Hybrid"} /\ extension_type = "none")

\* the report tag _apply_report_mode selects
report_for_mode(mode_, extension_type) ==
    IF mode_ = "IR" THEN 51
    ELSE IF mode_ = "Hybrid"
      THEN (IF extension_type = "motionplus" THEN 55
            ELSE IF has_extension(mode_, extension_type) THEN 54 ELSE 51)
    ELSE IF mode_ = "Accel" THEN 49
    ELSE IF extension_type = "motionplus" THEN 53
    ELSE IF has_extension(mode_, extension_type) THEN 50
    ELSE 49

_set_report_mode(d, report_id) ==
    IF device_write(d, << 18, 4, report_id >>).raised THEN d
    ELSE [device_write(d, << 18, 4, report_id >>) EXCEPT
            !.now = @ + 50, !._last_report_mode_set = d.now + 50]

enable_ir_camera(d) ==
    IF device_write(d, << 26, 4 >>).raised THEN d
    ELSE _write_register(sleep(device_write(d, << 26, 4 >>), 50), 78643248, << 8 >>)

_enable_ir(d, enable) ==
    IF d._ir_enabled = enable THEN d
    ELSE IF device_write(d, << 19, IF enable THEN 4 ELSE 0 >>).raised
      THEN [d EXCEPT !._ir_enabled = enable]
    ELSE IF enable
      THEN enable_ir_camera(device_write([d EXCEPT !._ir_enabled = enable], << 19, 4 >>))
    ELSE device_write([d EXCEPT !._ir_enabled = enable], << 19, 0 >>)

_apply_report_mode(d) ==
    _enable_ir(_set_report_mode(d, report_for_mode(d.mode, d.extension_type)),
               d.mode \in {"IR", "Hybrid"})

request_status(d) ==
    IF d.device = 0 THEN d
    ELSE IF device_write(d, << 21, 0 >>).raised THEN d
    ELSE [device_write(d, << 21, 0 >>) EXCEPT !._last_status_request = d.now]

\* self.extension_type = self._detect_extension()
detected_extension(d) == [d EXCEPT !.extension_type = d.detected]

\* WiimoteDriver._initialize; an exception of the first write escapes
driver_initialize(d) ==
    IF device_write(d, << 17, 16 >>).raised THEN [d EXCEPT !.raised = TRUE]
    ELSE Only({ Only({ _check_motionplus_active(request_status(_apply_report_mode(
                          IF b.extension_type = "motionplus" THEN _enable_motionplus(b)
                          ELSE IF b.extension_type = "nunchuk" THEN _enable_nunchuk(b)
                          ELSE b)))
                       : b \in { IF a.extension_type = "none"
                                      /\ a.mode \in {"MotionPlus", "Gyro", "Hybrid"}
                                   THEN [a EXCEPT !.extension_type = "motionplus"]
                                   ELSE a } })
                : a \in { IF d._extension_auto
                            THEN detected_extension(
                                   _detect_extension(sleep(device_write(d, << 17, 16 >>), 100)))
                            ELSE sleep(device_write(d, << 17, 16 >>), 100) } })

\* hid.device() followed by open_path(path): a new handle, open unless
\* open_path raised
open_path(d, open_raises) ==
    [d EXCEPT !.device = d.handles + 1, !.handles = @ + 1, !.is_open = ~open_raises,
              !.writes = << >>, !.last_issue = None, !.issue_gap = None]

\* d.result is the value returned
find_and_connect(d, found, open_raises) ==
    IF ~found THEN [d EXCEPT !.result = FALSE]
    ELSE IF open_raises THEN [open_path(d, TRUE) EXCEPT !.result = FALSE]
    ELSE Only({ IF i.raised THEN [caught(i) EXCEPT !.result = FALSE]
                ELSE [i EXCEPT !.connected = TRUE, !.result = TRUE]
                : i \in { driver_initialize(open_path(d, FALSE)) } })

\* WiimoteDriver._handle_disconnect as far as one thread sees it
_handle_disconnect(d) ==
    IF ~d.connected /\ d.device = 0 THEN d
    ELSE [d EXCEPT !.device = 0, !.is_open = FALSE, !.connected = FALSE]

\* WiimoteDriver.disconnect: the LED write, then close; the handle is
\* dropped either way
driver_disconnect(d) ==
    IF d.device = 0 THEN [d EXCEPT !.connected = FALSE]
    ELSE [caught(device_write(d, << 17, 0 >>)) EXCEPT
            !.now = IF device_write(d, << 17, 0 >>).raised THEN @ ELSE @ + 100,
            !.device = 0, !.is_open = FALSE, !.connected = FALSE]

\* A revert check that only looks for the accelerometer-only tag.
report_reverted_accel_tag(d, report_id) ==
    /\ d.mode \in {"MotionPlus", "Gyro", "Hybrid"}
    /\ report_id = Some(49)
    /\ d.now - d._last_report_mode_set > 1000

\* the revert check of read_state
report_reverted(d, report_id) ==
    /\ d.mode \in {"MotionPlus", "Gyro", "Hybrid"}
    /\ report_id \in {Some(49), Some(51)}
    /\ d.now - d._last_report_mode_set > 1000

\* read_state from the payload in hand to the return, but for the decoding
\* into self.state; d.result is the value returned
read_state_frame(d, payload) ==
    IF ~(Len(payload) > 2) THEN [d EXCEPT !.result = FALSE]
    ELSE Only({ Only({ [(IF _normalize_report(payload)[1] = Some(32)
                               /\ b.extension_type = "motionplus"
                           THEN _check_motionplus_active(b) ELSE b)
                          EXCEPT !.result = TRUE]
                       : b \in { IF report_reverted(a, _normalize_report(payload)[1])
                                   THEN _apply_report_mode(a) ELSE a } })
                : a \in { IF d.now - d._last_status_request >= StatusRequestInterval
                            THEN request_status(d) ELSE d } })

\* read_state without a poll thread: self.device.read(32, 50) and the rest
read_state(d, payload, read_raises) ==
    IF d.device = 0 THEN [d EXCEPT !.result = FALSE]
    ELSE IF read_raises \/ ~d.is_open THEN [_handle_disconnect(d) EXCEPT !.result = FALSE]
    ELSE read_state_frame(d, payload)

\* _check_motionplus_active writing what it found into self.state
store_probe(st, probe) ==
    [st EXCEPT !.motionplus_connected =
                   IF probe = "active" THEN Some(TRUE)
                   ELSE IF probe = "inactive" THEN Some(FALSE) ELSE @,
               !.extension_connected = IF probe = "active" THEN Some(TRUE) ELSE @]

\* What the transport refuses during one call: nothing, the report-mode
\* command, the camera switch, the LED command.
RejectSets == { {}, {18}, {19}, {17} }

\* Desired modes and extension settings the driver is constructed with
DrvModes == {"MotionPlus", "Hybrid", "IR", "Accel"}
DrvSettings == {"auto", "nunchuk"}

\* What the transport answers to reads during _read_memory: nothing in
\* time, or a 0x21 report carrying the MotionPlus identity.
ReplyScripts ==
    { << >>,
      << << 161, 33, 0, 0, 80, 0, 254, 0, 0, 164, 32, 4, 5 >> >> }

\* Frames read_state reads: data reports of three tags, a status report
\* and a frame too short to decode.
DriverFrames ==
    { << 161, t >> \o PayloadC : t \in {49, 51, 53} }
      \cup { << 161, 32, 0, 8, 0, 0, 0, 160 >>, << 49, 0 >> }

ClockGaps == {300, 1100}

\* WiimoteDriver(config) with the desired mode and the extension setting of
\* the configuration, at a time later than any interval the driver waits
NewDrv(mode_, extension_) ==
    [ connected |-> FALSE, device |-> 0, handles |-> 0, is_open |-> FALSE,
      mode |-> mode_, extension_type |-> _init_extension_settings(extension_),
      _extension_auto |-> (extension_ = "auto"), _ir_enabled |-> FALSE,
      _last_report_mode_set |-> 0, _last_status_request |-> 0, now |-> 10000,
      writes |-> << >>, rejects |-> {}, replies |-> << >>, answers |-> << >>,
      raised |-> FALSE,
      mem |-> None, detected |-> "none", probe |-> "unknown", result |-> FALSE,
      op |-> "none", calls |-> 0, last_issue |-> None, issue_gap |-> None,
      connected_before |-> FALSE, device_before |-> 0, set_before |-> 0,
      now_before |-> 10000, written_before |-> 0, ir_before |-> FALSE,
      tag |-> None ]

\* the driver at the moment operation o is called
DrvCall(d, o, rejects_, replies_, tag_) ==
    [d EXCEPT !.op = o, !.calls = @ + 1, !.rejects = rejects_, !.replies = replies_,
              !.answers = replies_,
              !.raised = FALSE, !.mem = None, !.probe = "unknown", !.issue_gap = None,
              !.connected_before = d.connected, !.device_before = d.device,
              !.set_before = d._last_report_mode_set, !.now_before = d.now,
              !.written_before = Len(d.writes), !.ir_before = d._ir_enabled,
              !.tag = tag_]

\* find_and_connect, called at start-up and by the reconnect loop
DrvConnect ==
    /\ drv # NoDrv
    /\ ~drv.connected
    /\ drv.calls < MaxCalls
    /\ \E found \in BOOLEAN, open_raises \in BOOLEAN, rejects_ \in RejectSets,
          replies_ \in ReplyScripts :
          /\ found \/ (~open_raises /\ rejects_ = {} /\ replies_ = << >>)
          /\ open_raises => (rejects_ = {} /\ replies_ = << >>)
          /\ drv' = find_and_connect(DrvCall(drv, "find_and_connect", rejects_,
                                             replies_, None),
                                     found, open_raises)
    /\ wstate' = store_probe(wstate, drv'.probe)
    /\ UNCHANGED << call, data, offset, extension, mode, done, ret, prior, cal,
                    offsets, args, mouse, link, lifeVars >>

\* read_state on a connected driver, gap ms after the previous call
DrvReadState ==
    /\ drv # NoDrv
    /\ drv.connected
    /\ drv.calls < MaxCalls
    /\ \E payload \in DriverFrames, read_raises \in BOOLEAN, rejects_ \in { {}, {18} },
          gap \in ClockGaps :
          /\ read_raises => (rejects_ = {} /\ payload = << 49, 0 >> /\ gap = 300)
          /\ drv' = read_state(DrvCall(sleep(drv, gap), "read_state", rejects_, << >>,
                                       IF read_raises THEN None
                                       ELSE _normalize_report(payload)[1]),
                               payload, read_raises)
          /\ wstate' = IF drv'.result
                         THEN read_state_decode(wstate, payload, drv'.extension_type,
                                                drv'.mode, drv'.probe).state
                         ELSE wstate
    /\ UNCHANGED << call, data, offset, extension, mode, done, ret, prior, cal,
                    offsets, args, mouse, link, lifeVars >>

\* disconnect()
DrvDisconnect ==
    /\ drv # NoDrv
    /\ drv.device # 0
    /\ drv.calls < MaxCalls
    /\ \E rejects_ \in { {}, {17} } :
          drv' = driver_disconnect(DrvCall(drv, "disconnect", rejects_, << >>, None))
    /\ UNCHANGED << call, data, offset, extension, mode, done, ret, wstate, prior,
                    cal, offsets, args, mouse, link, lifeVars >>

InitOneThread ==
    /\ InitDriver
    /\ cfg \in {c \in Configs : c.enabled}
    /\ script = << >>
    /\ devPresent = TRUE
    /\ frameSeq = 0
    /\ call = "none"
    /\ data = << >>
    /\ offset = 0
    /\ extension = "none"
    /\ mode = "MotionPlus"
    /\ done = FALSE
    /\ ret = None
    /\ wstate = WiimoteState
    /\ prior = wstate
    /\ cal = CalIdle
    /\ offsets = NoOffsets
    /\ args = None
    /\ mouse = NoMouse
    /\ link = NoLink
    /\ \E m \in DrvModes, e \in DrvSettings : drv = NewDrv(m, e)

NextOneThread == DrvConnect \/ DrvReadState \/ DrvDisconnect

SpecOneThread == InitOneThread /\ [][NextOneThread]_vars


\* the report-mode commands the current call wrote
ReportModeWritten ==
    { drv.writes[i] : i \in { j \in (drv.written_before + 1)..Len(drv.writes) :
                                drv.writes[j][1] = 18 } }

\* read_state read a data report on a connected driver more than a second
\* after the report-mode command was last sent, and the transport accepts
\* that command
DrvLateDataFrame ==
    /\ drv # NoDrv
    /\ drv.op = "read_state"
    /\ drv.connected_before
    /\ drv.tag \notin {None, Some(32)}
    /\ drv.result
    /\ drv.now_before - drv.set_before > 1000
    /\ 18 \notin drv.rejects

\* the command was re-issued and the connection left alone
DrvReissued ==
    /\ ReportModeWritten = { << 18, 4, report_for_mode(drv.mode, drv.extension_type) >> }
    /\ drv.connected
    /\ drv.is_open
    /\ drv.device = drv.device_before

\* C31 as stated: for every desired mode M, a data frame whose tag is not
\* the tag selected for M, read more than 1 second after the report-mode
\* command was last sent, makes read_state re-issue [0x12, 0x04, tag(M)]
\* without closing the transport or changing connected, and never sooner
\* than 1 second after the previous report-mode command.
C31_AnyModeReissued ==
    /\ (DrvLateDataFrame
          /\ drv.tag[1] # report_for_mode(drv.mode, drv.extension_type))
         => DrvReissued
    /\ (drv # NoDrv /\ drv.op = "read_state" /\ drv.issue_gap # None)
         => drv.issue_gap[1] > 1000

\* C31 amended: for desired modes MotionPlus, Gyro and Hybrid, a frame
\* tagged 0x31 or 0x33 read more than 1 second after the report-mode
\* command was last sent makes read_state re-issue [0x12, 0x04, tag(M)]
\* without closing the transport or changing connected; in every other
\* case read_state writes no report-mode command; two report-mode commands
\* are more than 1 second apart when read_state wrote the second.
C31_GyroModesReissued ==
    /\ (DrvLateDataFrame
          /\ drv.mode \in {"MotionPlus", "Gyro", "Hybrid"}
          /\ drv.tag \in {Some(49), Some(51)})
         => DrvReissued
    /\ (drv # NoDrv /\ drv.op = "read_state"
          /\ ~(DrvLateDataFrame
                 /\ drv.mode \in {"MotionPlus", "Gyro", "Hybrid"}
                 /\ drv.tag \in {Some(49), Some(51)}))
         => (ReportModeWritten = {} /\ drv.issue_gap = None)
    /\ (drv # NoDrv /\ drv.op = "read_state" /\ drv.issue_gap # None)
         => drv.issue_gap[1] > 1000

\* Hybrid was desired, frames tagged 0x33 arrived, and read_state sent the
\* report-mode command a second time on the same transport.
C31_ReissuedTwice ==
    /\ DrvLateDataFrame
    /\ drv.mode = "Hybrid"
    /\ drv.tag = Some(51)
    /\ DrvReissued
    /\ drv.issue_gap # None


\* C32: a connect with extension auto-detection on a transport that accepts
\* every write sends a register read [0x17, 3 address bytes, 2 size bytes],
\* and when the transport answers it with a 0x21 report whose error byte is
\* 0 and whose identity is 00 00 A4 20 04 05, the extension is classified as
\* the MotionPlus.
C32_IdentityReadAndClassified ==
    (drv # NoDrv /\ drv.op = "find_and_connect" /\ drv.result
       /\ drv._extension_auto /\ drv.rejects = {})
      => /\ \E i \in 1..Len(drv.writes) :
               drv.writes[i][1] = 23 /\ Len(drv.writes[i]) = 6
         /\ (drv.answers # << >>
               /\ startswith(Head(drv.answers), << 161, 33 >>)
               /\ From(Head(drv.answers), 7) = << 0, 0, 164, 32, 4, 5 >>)
              => drv.extension_type = "motionplus"


\* C37: after every successful connect or reconnect with desired mode IR or
\* Hybrid on a transport that accepts every write, [0x13, 0x04] followed by
\* [0x1A, 0x04] has been written to the newly opened transport by the time
\* the driver is marked connected.
C37_CameraEnabledOnEveryConnect ==
    (drv # NoDrv /\ drv.op = "find_and_connect" /\ drv.result /\ drv.connected
       /\ drv.mode \in {"IR", "Hybrid"} /\ drv.rejects = {})
      => \E i \in 1..(Len(drv.writes) - 1) :
            drv.writes[i] = << 19, 4 >> /\ drv.writes[i + 1] = << 26, 4 >>


\* ------------------------------------- WiimoteConnection and its poll thread
\* A WiimoteConnection with the fields its threads use: _read_thread is the
\* attribute ("set" when it holds a Thread), poll is the poll thread itself,
\* queue is _event_queue with QueueCap places.
NewPolledLink(pending, auto_reconnect) ==
    [ connected |-> FALSE, device |-> None, opened |-> FALSE, rumble_state |-> FALSE,
      writes |-> << >>, pending |-> pending, ops |-> 0, op |-> "none",
      result |-> None, before |-> None, env |-> None,
      auto_reconnect |-> auto_reconnect, _read_thread |-> "none", poll |-> "none",
      _read_stop |-> FALSE, _last_read_error |-> FALSE, _read_loop_wanted |-> FALSE,
      _reconnect_thread |-> "none", queue |-> << >>, escaped |-> FALSE ]

\* WiimoteConnection.start_read_loop
start_read_loop(l) ==
    IF ~l.connected \/ l.device = None THEN l
    ELSE IF l._read_thread = "set" /\ l.poll = "running" THEN l
    ELSE [l EXCEPT !._read_stop = FALSE, !._last_read_error = FALSE,
                   !._read_loop_wanted = TRUE, !._read_thread = "set",
                   !.poll = "running"]

\* WiimoteConnection.stop_read_loop called by thread "main" or by the poll
\* thread: Thread.join raises RuntimeError when the thread joins itself, and
\* the two assignments after it are not reached.  A poll thread joined by
\* another thread sees _read_stop and ends.
stop_read_loop(l, caller) ==
    IF l._read_thread = "set" /\ l.poll = "running"
      THEN IF caller = "poll" THEN [l EXCEPT !._read_stop = TRUE, !.escaped = TRUE]
           ELSE [l EXCEPT !._read_stop = TRUE, !.poll = "dead",
                          !._read_thread = "none", !._read_loop_wanted = FALSE]
    ELSE [l EXCEPT !._read_stop = TRUE, !._read_thread = "none",
                   !._read_loop_wanted = FALSE]

\* WiimoteConnection._ensure_reconnect
_ensure_reconnect(l) ==
    IF ~l.auto_reconnect \/ l.connected \/ l._reconnect_thread = "alive" THEN l
    ELSE [l EXCEPT !._reconnect_thread = "alive"]

\* WiimoteConnection._handle_disconnect: an exception of stop_read_loop
\* escapes before the transport is closed
link_handle_disconnect(l, caller) ==
    IF ~l.connected /\ l.device = None THEN l
    ELSE IF stop_read_loop(l, caller).escaped THEN stop_read_loop(l, caller)
    ELSE _ensure_reconnect([_cleanup(stop_read_loop(l, caller)) EXCEPT
                               !.connected = FALSE])

\* self._event_queue.put_nowait(event), dropping the oldest when full
link_enqueue(q, event) ==
    IF Len(q) < QueueCap THEN Append(q, event) ELSE Append(Tail(q), event)

\* One round of WiimoteConnection._read_loop up to the next read, or to the
\* end of the thread: outcome is what device.read does ("frame" with the
\* next pending frame, "timeout", "error").  The finally clause runs the
\* handler again when _last_read_error is set.
_read_loop(l, outcome) ==
    IF l._read_stop \/ ~l.connected \/ l.device = None
      THEN [(IF l._last_read_error THEN link_handle_disconnect(l, "poll") ELSE l)
              EXCEPT !.poll = "dead"]
    ELSE IF outcome = "frame" /\ l.pending # << >>
      THEN [l EXCEPT !.queue = link_enqueue(@, Head(l.pending)), !.pending = Tail(@)]
    ELSE IF outcome = "error"
      THEN [link_handle_disconnect(
                 link_handle_disconnect([l EXCEPT !._last_read_error = TRUE], "poll"),
                 "poll")
              EXCEPT !.poll = "dead"]
    ELSE l

\* WiimoteConnection.disconnect with its threads
link_disconnect(l) ==
    IF ~l.connected THEN l
    ELSE [disconnect(stop_read_loop(l, "main")) EXCEPT !._reconnect_thread = "none"]

LpStep(l, o) == [l EXCEPT !.ops = link.ops + 1, !.op = o]

LpConnect ==
    /\ call = "poll"
    /\ link.ops < MaxOps
    /\ ~link.connected
    /\ \E read_raises \in BOOLEAN :
          link' = LpStep(connect(link, [given |-> TRUE, path |-> "gamepad",
                                        listed |-> << >>], FALSE, read_raises)[1],
                         "connect")
    /\ UNCHANGED << call, data, offset, extension, mode, done, ret, wstate, prior,
                    cal, offsets, args, mouse, drv, lifeVars >>

LpStartReadLoop ==
    /\ call = "poll"
    /\ link.ops < MaxOps
    /\ link' = LpStep(start_read_loop(link), "start_read_loop")
    /\ UNCHANGED << call, data, offset, extension, mode, done, ret, wstate, prior,
                    cal, offsets, args, mouse, drv, lifeVars >>

LpStopReadLoop ==
    /\ call = "poll"
    /\ link.ops < MaxOps
    /\ link' = LpStep(stop_read_loop(link, "main"), "stop_read_loop")
    /\ UNCHANGED << call, data, offset, extension, mode, done, ret, wstate, prior,
                    cal, offsets, args, mouse, drv, lifeVars >>

\* the poll thread runs one round of its loop
LpReadLoop ==
    /\ call = "poll"
    /\ link.ops < MaxOps
    /\ link.poll = "running"
    /\ \E outcome \in {"frame", "timeout", "error"} :
          link' = LpStep(_read_loop([link EXCEPT !.escaped = FALSE], outcome),
                         "read_" \o outcome)
    /\ UNCHANGED << call, data, offset, extension, mode, done, ret, wstate, prior,
                    cal, offsets, args, mouse, drv, lifeVars >>

\* get_event(): the consumer takes the oldest queued event
LpGetEvent ==
    /\ call = "poll"
    /\ link.ops < MaxOps
    /\ link.queue # << >>
    /\ link' = LpStep([link EXCEPT !.queue = Tail(@)], "get_event")
    /\ UNCHANGED << call, data, offset, extension, mode, done, ret, wstate, prior,
                    cal, offsets, args, mouse, drv, lifeVars >>

LpDisconnect ==
    /\ call = "poll"
    /\ link.ops < MaxOps
    /\ link.connected
    /\ link' = LpStep(link_disconnect(link), "disconnect")
    /\ UNCHANGED << call, data, offset, extension, mode, done, ret, wstate, prior,
                    cal, offsets, args, mouse, drv, lifeVars >>

InitLinkPoll ==
    /\ InitDriver
    /\ cfg \in {c \in Configs : c.enabled}
    /\ script = << >>
    /\ devPresent = TRUE
    /\ frameSeq = 0
    /\ call = "poll"
    /\ data = << >>
    /\ offset = 0
    /\ extension = "none"
    /\ mode = "MotionPlus"
    /\ done = FALSE
    /\ ret = None
    /\ wstate = WiimoteState
    /\ prior = wstate
    /\ cal = CalIdle
    /\ offsets = NoOffsets
    /\ args = None
    /\ mouse = NoMouse
    /\ drv = NoDrv
    /\ \E p \in PendingFrames, a \in BOOLEAN : link = NewPolledLink(p, a)

NextLinkPoll ==
    \/ LpConnect
    \/ LpStartReadLoop
    \/ LpStopReadLoop
    \/ LpReadLoop
    \/ LpGetEvent
    \/ LpDisconnect

SpecLinkPoll == InitLinkPoll /\ [][NextLinkPoll]_vars

\* C33: when a read of the poll thread raises an error that is not a
\* timeout, the disconnect handling on the poll thread runs to completion:
\* the transport is closed, connected is False, the poll thread has ended
\* and, with auto_reconnect, a reconnect thread is running.
C33_PollErrorHandled ==
    link.op = "read_error"
      => /\ link.poll = "dead"
         /\ ~link.connected
         /\ ~link.opened
         /\ link.device = None
         /\ link.auto_reconnect => link._reconnect_thread = "alive"


\* C34: read_state never closes a transport because of a read error stored
\* before that transport was opened.  read_state was called while the driver
\* was connected on a handle on which nothing had failed, with a read error
\* already stored, and is now about to close that handle, still healthy,
\* inside the handler it entered for the stored error.  The consumer opens
\* no transport after its first call, so the handle was opened by the
\* reconnect loop after the error was stored.
C34_StaleErrorNeverTearsDown ==
    ~(/\ pc[Main] = "hd_close"
      /\ op = "read_state"
      /\ stack[Main] # << >>
      /\ Head(stack[Main]) = "rs_clearerr"
      /\ connected
      /\ device # 0
      /\ device \in good
      /\ staleAtCall = device)

\* C35: whatever the consumer takes from the queue meanwhile, the frame the
\* poll thread read last has been put on the queue by the time the poll
\* thread is back at the top of its loop: the producer never discards the
\* newest frame.
C35_NewestAlwaysEnqueued ==
    \A p \in PollIds :
        (pc[p] = "pl_top" /\ frameSeq > 0 /\ frameSeq < MaxFrames)
          => lastEnq = frameSeq


\* C36: the button mask read_state stores from a status report (0x20) is the
\* mask it stores from a data report carrying the same two button bytes, so
\* that a status report arriving while buttons are held has no bit that
\* MouseController.process_state would take for a new press.
C36_StatusMaskIsDataMask ==
    (/\ call = "read_state"
     /\ done
     /\ ret = Some(TRUE)
     /\ _normalize_report(data)[1] = Some(32)
     /\ Len(data) >= _normalize_report(data)[2] + 2)
      => wstate.buttons
           = _button_state_to_mask(
               parse_buttons(Slice(data, _normalize_report(data)[2],
                                   _normalize_report(data)[2] + 2)))


\* ------------------------------------------- calibrate() beside the poll thread
\* gui.py _calibrate: the Calibrate button runs driver.calibrate() on a thread
\* of its own while the consumer's read_state loop and the poll thread run.
\* cal.direct collects the frames _read_raw_state took from the transport
\* itself while the poll thread was alive.

\* One pass of calibrate()'s while loop on the button's thread: device.read
\* of _read_raw_state times out, or returns the next frame of the device.
CalReadPolled ==
    /\ call = "calibrate"
    /\ cal.pc = "loop"
    /\ calibrate_continues(Len(cal.gyro_samples), cal.samples, cal.attempts)
    /\ device # 0 /\ device \in good
    /\ \E read \in { Some(<< >>), Some(<< 161, 49, 0, 8, 100, 100, 100, 110, 110, 110 >>) } :
          LET raw == _read_raw_state(read)
          IN /\ data' = read[1]
             /\ frameSeq' = IF read[1] = << >> THEN frameSeq ELSE NextFrame
             /\ cal' = [cal EXCEPT
                          !.attempts = @ + 1,
                          !.reads = @ + 1,
                          !.direct = IF read[1] # << >> /\ Alive(readThread)
                                       THEN @ \cup {NextFrame} ELSE @,
                          !.accel_samples = IF raw = None THEN @
                                            ELSE Append(@, raw[1][1]),
                          !.gyro_samples = IF raw = None THEN @
                                           ELSE Append(@, raw[1][2])]
    /\ UNCHANGED << pc, stack, escaped, joinTarget, devVars, connVars, readVars,
                    reconnVars, queueVars, rsVars, delay, cfg, script,
                    devPresent, losses, ghostVars >>
    /\ UNCHANGED << call, offset, extension, mode, done, ret, wstate, prior,
                    offsets, args, mouse, link, drv >>

InitPolledCalibrate ==
    /\ PolledDriver
    /\ call = "calibrate"
    /\ data = << >>
    /\ offset = 0
    /\ extension = "motionplus"
    /\ mode = "MotionPlus"
    /\ done = FALSE
    /\ ret = None
    /\ wstate = WiimoteState
    /\ prior = wstate
    /\ offsets = NoOffsets
    /\ args = None
    /\ mouse = NoMouse
    /\ link = NoLink
    /\ drv = NoDrv
    /\ cal = [ pc |-> "start", samples |-> MaxSamples, gyro_target |-> 8000,
               accel_target |-> 512, attempts |-> 0, reads |-> 0,
               gyro_samples |-> << >>, accel_samples |-> << >>,
               before |-> offsets, direct |-> {} ]

NextPolledCalibrate == NextQueue \/ CalStart \/ CalReadPolled \/ CalFinish

SpecPolledCalibrate == InitPolledCalibrate /\ [][NextPolledCalibrate]_vars

\* C38: while the poll thread is alive it is the only reader of the transport:
\* calibrate() takes no frame from the device itself, and read_state is not at
\* its own device.read, so every frame delivered while polling runs is put to
\* the frame queue by the poll thread.
C38_PollThreadOnlyReader ==
    /\ cal.direct = {}
    /\ Alive(readThread) => pc[Main] # "rs_direct"


\* ------------------------------------------- read_state after calibrate()
\* calibrate() on a device that answers every read with the frame held in
\* data, and then the first read_state that decodes the same frame.

\* Python's int() of the fraction n / d: the fraction part is cut off
py_int(v) == IF v[1] >= 0 THEN v[1] \div v[2] ELSE -((-v[1]) \div v[2])

\* sample - offset for the three axes; a sample is the value a reset filter
\* holds after its first apply, an offset is << n, d >>
less_offset(filters, offset_) ==
    [ a \in 1..3 |-> Some(<< filters[a][1][1] * offset_[a][2] - offset_[a][1],
                             offset_[a][2] >>) ]

\* read_state on a data frame while the filters are reset, as calibrate()
\* leaves them: a reset filter hands back what it is given, so that the
\* state holds int(sample - offset) and the filter sample - offset, sample
\* being what read_state_decode finds with the offsets zero.
read_state_calibrated(st, payload, ext, m, offs) ==
    Only({ [ state |->
               [r.state EXCEPT
                  !.accel_filters = IF @[1] = None THEN @
                                    ELSE less_offset(@, offs.accel),
                  !.accel = IF r.state.accel_filters[1] = None THEN @
                            ELSE [ a \in 1..3 |->
                                     py_int(less_offset(r.state.accel_filters,
                                                        offs.accel)[a][1]) ],
                  !.gyro_filters = IF @[1] = None THEN @
                                   ELSE less_offset(@, offs.gyro),
                  !.gyro = IF r.state.gyro_filters[1] = None THEN @
                           ELSE [ a \in 1..3 |->
                                    py_int(less_offset(r.state.gyro_filters,
                                                       offs.gyro)[a][1]) ] ],
             ret |-> r.ret ]
           : r \in { read_state_decode(st, payload, ext, m, "unknown") } })

\* Frames of a controller lying still: 0x31 as the model's calibration
\* frames have it, 0x31 and 0x35 with the accelerometer near its middle and
\* a MotionPlus block near 8000 on each axis, and a frame of zeros.
RestFrames ==
    { << 161, 49, 0, 8, 100, 100, 100, 110, 110, 110 >>,
      << 161, 49, 0, 0, 128, 128, 153, 64, 64, 64, 124, 124, 124 >>,
      << 161, 53, 0, 0, 128, 128, 153, 64, 64, 64, 124, 124, 124 >>,
      << 161, 53, 32, 64, 128, 128, 153, 64, 65, 66, 124, 126, 126 >>,
      << 161, 49, 0, 0, 0, 0, 0, 0, 0, 0 >> }

\* One pass of calibrate()'s while loop, device.read handing over the frame
\* the device repeats.
CalReadRest ==
    /\ call = "calibrate"
    /\ cal.pc = "loop"
    /\ calibrate_continues(Len(cal.gyro_samples), cal.samples, cal.attempts)
    /\ cal' = Only({ [cal EXCEPT
                        !.attempts = @ + 1,
                        !.reads = @ + 1,
                        !.accel_samples = IF raw = None THEN @
                                          ELSE Append(@, raw[1][1]),
                        !.gyro_samples = IF raw = None THEN @
                                         ELSE Append(@, raw[1][2])]
                     : raw \in { _read_raw_state(Some(data)) } })
    /\ UNCHANGED << call, data, offset, extension, mode, done, ret, wstate,
                    prior, offsets, args, mouse, link, drv, lifeVars >>

\* read_state decoding the same frame, called once calibrate() has returned.
CalReadState ==
    /\ call = "calibrate"
    /\ done
    /\ device # 0
    /\ call' = "read_state"
    /\ prior' = wstate
    /\ wstate' = read_state_calibrated(wstate, data, extension, mode, offsets).state
    /\ UNCHANGED << data, offset, extension, mode, done, ret, cal, offsets,
                    args, mouse, link, drv, lifeVars >>

InitAtRest ==
    /\ InitThreads
    /\ device = 1 /\ open = {1} /\ good = {1}
    /\ cfg \in {c \in Configs : c.enabled}
    /\ script = << >>
    /\ devPresent = TRUE
    /\ frameSeq = 0
    /\ call = "calibrate"
    /\ data \in RestFrames
    /\ offset = 0
    /\ extension \in {"motionplus", "none"}
    /\ mode \in {"MotionPlus", "Accel"}
    /\ done = FALSE
    /\ ret = None
    /\ wstate \in { WiimoteState, SeenState("motionplus", "MotionPlus") }
    /\ prior = wstate
    /\ offsets \in { NoOffsets, EarlierOffsets }
    /\ args = None
    /\ mouse = NoMouse
    /\ link = NoLink
    /\ drv = NoDrv
    /\ \E s \in { c \in CalSettings : c.samples > 0 } :
          cal = [ pc |-> "start", samples |-> s.samples,
                  gyro_target |-> s.gyro_target, accel_target |-> s.accel_target,
                  attempts |-> 0, reads |-> 0, gyro_samples |-> << >>,
                  accel_samples |-> << >>, before |-> offsets ]

NextAtRest == CalStart \/ CalReadRest \/ CalFinish \/ CalReadState

SpecAtRest == InitAtRest /\ [][NextAtRest]_vars

\* C39: when calibrate() has succeeded on a device that repeats one frame,
\* the first read_state decoding that frame afterwards stores accel_target
\* on every accelerometer axis and gyro_target on every gyro axis (F being
\* a frame in which read_state finds both samples).
C39_RestFrameReadsTargets ==
    (call = "read_state" /\ ret = Some(TRUE) /\ wstate.gyro_filters[1] # None
       /\ wstate.accel_filters[1] # None)
      => /\ wstate.accel = << cal.accel_target, cal.accel_target, cal.accel_target >>
         /\ wstate.gyro = << cal.gyro_target, cal.gyro_target, cal.gyro_target >>


\* The motion state as reset_motion_state leaves it
MotionStateReset ==
    /\ mouse._pitch = << 0, 1 >> /\ mouse._roll = << 0, 1 >>
    /\ mouse._prev_pitch = << 0, 1 >> /\ mouse._prev_roll = << 0, 1 >>
    /\ mouse._last_time = None

\* The buttons that went down between the last snapshot and this one are
\* the ones the call handed to handle_button_action.
NewPressesDispatched ==
    \A b \in { << 1, "TWO" >>, << 2, "ONE" >> } :
        (BitAnd(mouse.state[1].buttons, b[1]) # 0
           /\ BitAnd(mouse.buttons_before, b[1]) = 0)
          <=> (\E i \in 1..Len(mouse.dispatched) : mouse.dispatched[i] = b[2])

====
